---- MODULE Spec2Model ----
(***************************************************************************)
(* A model of s3up's multi-part upload machinery:                          *)
(*   - Uploader.upload (s3_uploader.go), the object dispatcher;            *)
(*   - S3UploadParts (s3_upload_parts.go), one multi-part session with its *)
(*     part workers, submitter goroutines, Wait and CompleteUpload;        *)
(*   - S3UploadState (s3_hasher.go), the per-object result record;         *)
(*   - HashParts (hash_parts.go) and the three Sources (source.go).        *)
(*                                                                         *)
(* Spec is one run of Uploader.upload on an input of length L, followed by *)
(* Uploader.Wait; FairSpec adds weak fairness of its steps.  The other     *)
(* specifications drive parts of the program directly, the way a           *)
(* package-level test does:                                                *)
(*   - ApiSpec: the exported session operations (NextPartID,               *)
(*     CompleteUpload, AbortUpload, cancellation) on a session whose       *)
(*     S3UploadState was filled in directly;                               *)
(*   - AbortSpec: Uploader.AbortPending over a registry of sessions;       *)
(*   - FinishSpec: AbortPending while uploads complete and unregister;     *)
(*   - SrcSpec: Next and Close on each of the three Sources;               *)
(*   - HashSpec: HashParts.Write called with arbitrary lengths;            *)
(*   - KeySpec: S3Key on byte strings;                                     *)
(*   - ReportSpec: NewObjectReporting and main's result loop on the        *)
(*     UploadResults an upload can end with;                               *)
(*   - UploadSpec, UploadFairSpec: Uploader.Upload, the object workers of  *)
(*     NewUploader and Uploader.Close;                                     *)
(*   - PartIDSpec: NextPartID called from several goroutines at once;      *)
(*   - PoolSpec: the part workers of several sessions open at once;        *)
(*   - GlobSpec: the goroutine of processGlobs over matched paths.         *)
(*                                                                         *)
(* Go's select is modelled as the runtime implements it: a goroutine       *)
(* parked in a select is committed to the first of its cases that becomes  *)
(* ready.  Every select that mentions p.ch also mentions p.ctx.Done(), so  *)
(* closing Done commits every parked submitter and worker to its Done      *)
(* branch, and a goroutine that reaches such a select later finds Done     *)
(* ready and nobody parked on p.ch: a hand-off over p.ch happens only      *)
(* while the context is not cancelled.                                     *)
(***************************************************************************)
EXTENDS Integers, Sequences, FiniteSets, TLC

\* Options.PartSize, scaled down to bytes.
PartSize == 2
\* Longest input.
MaxLen == 7
\* Options.ConcurrentParts.
ConcurrentParts == 2
\* Options.MaxPartID, scaled down.
MaxPartID == 3
\* copyBufSize, scaled down to bytes.
CopyBufSize == 1
\* Largest part number a test records directly into the S3UploadState.
MaxRecordID == 5
\* Largest number of NextPartID calls a test makes.
MaxCalls == 8

\* Multi-part sessions the Uploader can have registered at once.
NSessions == 3

\* Most calls of Next made on one Source.
MaxNextCalls == 5
\* Most calls of Close made on one SourceReader.
MaxCloses == 2
\* Most calls of HashParts.Write, and the longest buffer written.
MaxWrites == 12
MaxWriteLen == 3
\* Options.ConcurrentObjects, and the calls of Uploader.Upload made.
ConcurrentObjects == 2
NUploads == 3
\* Goroutines calling NextPartID at once, and the calls each of them makes.
NCallers == 3
MaxCallsEach == 2
\* Multi-part sessions open at once with their part workers, and the parts
\* submitted to them in total.
NPools == 2
MaxSubmits == 3
\* Paths matched by the globs given to processGlobs, and the regular files
\* in a matched directory.
MaxMatches == 3
MaxDirFiles == 2
\* Length in bytes of the keys given to S3Key.
MaxKeyLen == 4
\* MAX_KEY_BYTES, scaled down.
MaxKeyBytes == 3

Workers == 1..ConcurrentParts
Sessions == 1..NSessions
\* The session of the upload that Spec follows.
Sess == 1
Uploads == 1..NUploads
ObjWorkers == 1..ConcurrentObjects
Pools == 1..NPools
Callers == 1..NCallers
PartIDs == 1..MaxPartID

Min(a, b) == IF a < b THEN a ELSE b

VARIABLES
    L,                  \* length of the input io.Reader
    timeoutOn,          \* Options.UploadPartTimeout > 0
    pc,                 \* position of the goroutine running Uploader.upload
    offset,             \* readerAtSource.offset
    hparts,             \* HashParts.h: the byte count n of every HashPart
    hopen,              \* HashParts.p # nil
    sr,                 \* size of the SourceReader upload holds
    peeked,             \* the read-ahead: "none", or a record [eof, size]
    live,               \* SourceReaders returned by Next and not yet closed
    s3multi,            \* upload's s3multi # nil
    stMu,               \* S3UploadState.mu: "nil" or "set"
    lastPartID,         \* S3UploadParts.lastPartID
    pending,            \* S3UploadParts.pending (WaitGroup counter)
    part,               \* per part number: where its queuedPart is
    pcW,                \* position of each part worker goroutine
    wq,                 \* the part number a worker holds (0: none)
    resCh,              \* per part number: what its queuedPart.ch holds
    body,               \* per part number: size of the UploadPartInput's Body
    cancelled,          \* p.ctx.Done() is closed
    waiter,             \* the goroutine of Wait: "none", "blocked", "sent"
    waitRes,            \* what S3UploadParts.Wait returned
    ret,                \* what upload returned
    wireLog,            \* wire calls in the order they were initiated
    wireErr,            \* some wire call returned an error
    uploadPartOutputs,  \* part numbers that are keys of S3UploadState.uploadPartOutputs
    uploadPartErrors,   \* part numbers whose recorded error is non-nil
    completedOutput,    \* S3UploadState.completedOutput
    completedError,     \* S3UploadState.completedError
    objectAttributesOutput, \* S3UploadState.objectAttributesOutput
    abortable,          \* the sessions that are keys of Uploader.abortable
    uMu,                \* Uploader.mu: "free", or the method holding it
    uWaitRes,           \* what Uploader.Wait returned
    abortPending,       \* the activation of Uploader.AbortPending
    inflight,           \* sessions whose AbortMultipartUpload has not returned
    abortedOutput,      \* per session: S3UploadState.abortedOutput
    abortedError,       \* per session: S3UploadState.abortedError
    abortRet,           \* per session: what AbortUpload returned
    finish,             \* per session: where its upload is in lines 392-397
    src,                \* the Source under test and the io.Reader behind it
    stores,             \* temp files / pooled buffers, in order of creation
    slices,             \* the SourceReaders returned by Next, in order
    nextRet,            \* what the last call of Next returned
    hwrites,            \* number of HashParts.Write calls made
    hwritten,           \* total of len(buf) over those calls
    keyIn,              \* the arguments of S3Key: the key's bytes, encode
    keyRet,             \* what S3Key returned
    resIn,              \* an UploadResults: its State's fields and its Error
    report,             \* what NewObjectReporting returned for resIn's State
    manifest,           \* what main's result handler did with resIn
    upl,                \* per call of Uploader.Upload: its position, its input
    objW,               \* per object worker: its position, the upload it holds
    qres,               \* per call of Upload: the UploadResults sent on q.res
    uPending,           \* Uploader.pending (WaitGroup counter)
    uClosed,            \* Uploader.ctx.Done() is closed
    pMu,                \* S3UploadParts.mu: 0, or the caller holding it
    caller,             \* per goroutine calling NextPartID: its position,
                        \* the value it loaded, the values it was returned
    sessW,              \* per session: whether its part workers were
                        \* started, how many are in their select, how
                        \* many have returned
    sessPart,           \* per session and part number: how far the part
                        \* submitted to that session has come, and the
                        \* session of the worker that received it
    sessDone,           \* the sessions whose p.ctx.Done() is closed
    glob,               \* the goroutine of processGlobs: the -key it was
                        \* given, the matches left, nqueued, what it sent
    panicking,          \* a goroutine hit a run-time panic
    crashed,            \* the process has exited after the panic
    calls,              \* ApiSpec: number of NextPartID calls made
    lastRet,            \* ApiSpec: what the last NextPartID call returned
    lastOp              \* ApiSpec: the operation the last step performed

vars == << L, timeoutOn, pc, offset, hparts, hopen, sr, peeked, live, s3multi,
           stMu, lastPartID, pending, part, pcW, wq, resCh, body,
           cancelled, waiter, waitRes, ret, wireLog, wireErr, uploadPartOutputs,
           uploadPartErrors, completedOutput, completedError,
           objectAttributesOutput, abortable, uMu, uWaitRes, abortPending,
           inflight, abortedOutput, abortedError, abortRet, finish, src, stores,
           slices, nextRet, hwrites, hwritten, keyIn, keyRet, resIn,
           report, manifest, upl, objW, qres, uPending, uClosed,
           pMu, caller, sessW, sessPart, sessDone, glob, panicking,
           crashed, calls,
           lastRet, lastOp >>

----------------------------------------------------------------------------
(* readerAtSource.Next: the next slice of at most PartSize bytes, or EOF. *)
SrcNext(off) ==
    IF off >= L
    THEN [eof |-> TRUE, size |-> 0]
    ELSE [eof |-> FALSE,
          size |-> IF off + PartSize > L THEN L - off ELSE PartSize]

(* HashParts.Write of n bytes on the parts h (hp.h) and the flag open     *)
(* (hp.p # nil).  The loop of lines 102-133.                               *)
RECURSIVE HashWriteLoop(_, _, _)
HashWriteLoop(h, open, n) ==
    IF n = 0 THEN [h |-> h, open |-> open]
    ELSE LET h1  == IF open THEN h ELSE Append(h, 0)
             cur == h1[Len(h1)]
             m   == IF cur + n > PartSize THEN PartSize - cur ELSE n
             h2  == [h1 EXCEPT ![Len(h1)] = cur + m]
         IN HashWriteLoop(h2, (cur + m) # PartSize, n - m)

(* A Write that allocates a part only when it has bytes to put into it. *)
HashWrite_NoEmptyPart(h, open, n) ==
    HashWriteLoop(h, open, n)

(* HashParts.Write: a part is allocated up front when none is open. *)
HashWrite(h, open, n) ==
    HashWriteLoop(IF open THEN h ELSE Append(h, 0), TRUE, n)

(* io.CopyBuffer(s3hw, sr, buf): the slice is written to the hasher in    *)
(* chunks of at most CopyBufSize bytes.                                    *)
RECURSIVE CopyBuffer(_, _, _)
CopyBuffer(h, open, n) ==
    IF n = 0 THEN [h |-> h, open |-> open]
    ELSE LET c == Min(CopyBufSize, n)
             w == HashWrite(h, open, c)
         IN CopyBuffer(w.h, w.open, n - c)

(* S3UploadParts.NextPartID on the counter last. *)
NextPartID_OffByOne(last) ==
    IF last > MaxPartID
    THEN [id |-> 0, err |-> "ErrMaxPartID", last |-> last]
    ELSE [id |-> last + 1, err |-> "nil", last |-> last + 1]

NextPartID(last) ==
    IF last = MaxPartID
    THEN [id |-> 0, err |-> "ErrMaxPartID", last |-> last]
    ELSE [id |-> last + 1, err |-> "nil", last |-> last + 1]


(* slices.SortFunc on the part numbers gathered from the map. *)
RECURSIVE SortParts(_)
SortParts(S) ==
    IF S = {} THEN << >>
    ELSE LET m == CHOOSE x \in S : \A y \in S : x <= y
         IN << m >> \o SortParts(S \ {m})

(* The density check of S3UploadState.completeParts over the sorted part  *)
(* numbers: the Go loop runs i = 1 .. len-1 over a 0-based slice and       *)
(* compares element i with i+1, i.e. positions 2 .. Len here.              *)
OutOfOrder(sorted) ==
    \E j \in 2..Len(sorted) : sorted[j] # j

(* S3UploadState.completeParts: the request parts, or the error. *)
completeParts(outs) ==
    LET sorted == SortParts(outs)
    IN IF OutOfOrder(sorted)
       THEN [err |-> "out-of-order partID", parts |-> << >>]
       ELSE [err |-> "nil", parts |-> sorted]

(* The orders in which 'range p.uploadPartOutputs' can yield the keys of   *)
(* the map: Go leaves the iteration order of a map unspecified.            *)
RangeOrders(S) ==
    {o \in [1..Cardinality(S) -> S] : \A x \in S : \E k \in DOMAIN o : o[k] = x}

(* A loop whose variable partID is one variable for all iterations, so     *)
(* that every &partID taken in the body points at the last key yielded.    *)
LoopParts_SharedVar(order) ==
    [k \in 1..Len(order) |->
        [PartNumber |-> order[Len(order)],
         ETag |-> << "ETag", order[k] >>,
         Checksum |-> << "SumPart", order[k] >>]]

(* Lines 299-320 of completeParts: per key partID and output out yielded,  *)
(* a CompletedPart with PartNumber &partID, out.ETag, and the base64 of    *)
(* p.hr.SumPart(partID) in the field of the algorithm, appended in the     *)
(* order of the range.  The output stored under key i is the one the       *)
(* UploadPart call of part i returned, and SumPart(i) is the digest of     *)
(* hasher part i.                                                          *)
LoopParts(order) ==
    [k \in 1..Len(order) |->
        [PartNumber |-> order[k],
         ETag |-> << "ETag", order[k] >>,
         Checksum |-> << "SumPart", order[k] >>]]

(* Lines 322-324: slices.SortFunc by PartNumber. *)
RECURSIVE SortFunc(_)
SortFunc(s) ==
    IF s = << >> THEN << >>
    ELSE LET k == CHOOSE k \in 1..Len(s) :
                     \A j \in 1..Len(s) :
                        \/ s[k].PartNumber < s[j].PartNumber
                        \/ s[k].PartNumber = s[j].PartNumber /\ k <= j
         IN << s[k] >> \o
            SortFunc([j \in 1..(Len(s) - 1) |-> IF j < k THEN s[j] ELSE s[j + 1]])

(* S3UploadState.Errors: how many errors the state holds. *)
Errors ==
    Cardinality(uploadPartErrors)
        + (IF completedError # "nil" THEN 1 ELSE 0)

NoPeek == [set |-> FALSE, eof |-> FALSE, size |-> 0]

Call(op, id, n) ==
    [op |-> op, id |-> id, n |-> n, ctxDone |-> cancelled,
     sessDone |-> cancelled]

(* The CompleteMultipartUpload call of lines 303-313 with the Parts of its *)
(* request; its context derives from context.Background().                 *)
CompleteCall(parts) ==
    [op |-> "CompleteMultipartUpload", id |-> 0, n |-> 0, ctxDone |-> FALSE,
     sessDone |-> cancelled, parts |-> parts]

(* A wire call made with a context derived from context.Background(), as  *)
(* CompleteUpload and AbortUpload do (lines 295-301 and 337-343).          *)
CallBackground(op, id) ==
    [op |-> op, id |-> id, n |-> 0, ctxDone |-> FALSE,
     sessDone |-> cancelled]

(* No Source is under test. *)
NoSource == [kind |-> "none", pos |-> 0, failAt |-> 0, calls |-> 0]

NoNextRet == [slice |-> FALSE, err |-> "none", failed |-> FALSE]

(* The S3UploadState of an object that was not uploaded in any way. *)
NoState ==
    [obj |-> FALSE, objOutput |-> FALSE, objError |-> FALSE,
     create |-> FALSE, createOutput |-> FALSE, uploadPartErrors |-> {},
     completedOutput |-> FALSE, completedError |-> FALSE,
     abortedOutput |-> FALSE, abortedError |-> FALSE,
     objectAttributesOutput |-> FALSE, objectAttributesError |-> FALSE,
     count |-> 0]

(* No UploadResults was delivered. *)
NoResults == [hasState |-> FALSE, st |-> NoState, error |-> FALSE]

(* NewObjectReporting has not been called. *)
NoReport ==
    [err |-> "none", UploadId |-> FALSE, Completed |-> FALSE,
     Aborted |-> FALSE, ObjectChecksum |-> "nil", Errors |-> {}]

(* A goroutine that is not inside NextPartID. *)
NoCaller == [pc |-> "idle", tmp |-> 0, n |-> 0, got |-> << >>]

(* The part workers of a session that has not been created, and a part   *)
(* that has not been submitted.                                            *)
NoPool == [started |-> FALSE, idle |-> 0, exited |-> 0]
NoPoolPart == [st |-> "none", by |-> 0]

(* processGlobs has not been called. *)
NoGlob == [pc |-> "idle", key |-> "", matches |-> << >>, walk |-> 0,
           nqueued |-> 0, sent |-> << >>]

(* Upload has not been called. *)
NoUpload == [pc |-> "idle", big |-> FALSE]

(* S3Key has not been called. *)
NoKey == [k |-> << >>, encode |-> FALSE]

NoKeyRet == [key |-> << >>, err |-> "none"]

(* Uploader.AbortPending has not been called. *)
NoAbortPending ==
    [caller |-> "none", reg |-> {}, visited |-> {}, finished |-> FALSE,
     ctxDone |-> FALSE]

----------------------------------------------------------------------------
(* Uploader.upload on one input.                                            *)

Init ==
    /\ L \in 0..MaxLen
    /\ timeoutOn \in BOOLEAN
    /\ pc = "next"
    /\ offset = 0
    /\ hparts = << >>
    /\ hopen = FALSE
    /\ sr = 0
    /\ peeked = NoPeek
    /\ live = 0
    /\ s3multi = FALSE
    /\ stMu = "nil"
    /\ lastPartID = 0
    /\ pending = 0
    /\ part = [i \in PartIDs |-> "none"]
    /\ pcW = [w \in Workers |-> "none"]
    /\ wq = [w \in Workers |-> 0]
    /\ resCh = [i \in PartIDs |-> "empty"]
    /\ body = [i \in PartIDs |-> 0]
    /\ cancelled = FALSE
    /\ waiter = "none"
    /\ waitRes = "none"
    /\ ret = "none"
    /\ wireLog = << >>
    /\ wireErr = FALSE
    /\ uploadPartOutputs = {}
    /\ uploadPartErrors = {}
    /\ completedOutput = "nil"
    /\ completedError = "nil"
    /\ objectAttributesOutput = "nil"
    /\ abortable = {}
    /\ uMu = "free"
    /\ uWaitRes = "none"
    /\ abortPending = NoAbortPending
    /\ inflight = {}
    /\ abortedOutput = [s \in Sessions |-> "nil"]
    /\ abortedError = [s \in Sessions |-> "nil"]
    /\ abortRet = [s \in Sessions |-> "none"]
    /\ finish = [s \in Sessions |-> "none"]
    /\ src = NoSource
    /\ stores = << >>
    /\ slices = << >>
    /\ nextRet = NoNextRet
    /\ hwrites = 0
    /\ hwritten = 0
    /\ keyIn = NoKey
    /\ keyRet = NoKeyRet
    /\ resIn = NoResults
    /\ report = NoReport
    /\ manifest = "none"
    /\ upl = [q \in Uploads |-> NoUpload]
    /\ objW = [w \in ObjWorkers |-> [pc |-> "select", q |-> 0]]
    /\ qres = [q \in Uploads |-> << >>]
    /\ uPending = 0
    /\ uClosed = FALSE
    /\ pMu = 0
    /\ caller = [c \in Callers |-> NoCaller]
    /\ sessW = [s \in Pools |-> NoPool]
    /\ sessPart = [s \in Pools |-> [i \in PartIDs |-> NoPoolPart]]
    /\ sessDone = {}
    /\ glob = NoGlob
    /\ panicking = FALSE
    /\ crashed = FALSE
    /\ calls = 0
    /\ lastRet = [id |-> 0, err |-> "nil", last |-> 0]
    /\ lastOp = "none"

sessionVars == << stMu, lastPartID, pending, part, pcW, wq, resCh, body,
                 waiter, waitRes >>
stateVars == << uploadPartOutputs, uploadPartErrors, completedOutput,
                completedError, objectAttributesOutput >>
apiVars == << calls, lastRet, lastOp >>
fnVars == << keyIn, keyRet, resIn, report, manifest >>
upVars == << upl, objW, qres, uPending, uClosed >>
idVars == << pMu, caller >>
poolVars == << sessW, sessPart, sessDone >>
ioVars == << src, stores, slices, nextRet, hwrites, hwritten, fnVars,
            upVars, idVars, poolVars, glob >>
abortVars == << uMu, abortPending, inflight, abortedOutput, abortedError,
               abortRet, finish >>
srcVars == << offset, hparts, hopen, sr, peeked, live >>

(* Lines 278-303: the source is exhausted before any slice was read: a     *)
(* zero-length part is registered in the hasher and putObject is called    *)
(* with a ZeroReadCloser.                                                  *)
NextEmpty ==
    /\ ~crashed /\ pc = "next" /\ ~s3multi /\ ~peeked.set
    /\ SrcNext(offset).eof
    /\ LET w == HashWrite(hparts, hopen, 0)
       IN hparts' = w.h /\ hopen' = w.open
    /\ sr' = 0
    /\ pc' = "put"
    /\ UNCHANGED << ioVars, abortVars, uWaitRes, L, timeoutOn, offset, peeked, live, s3multi, sessionVars,
                    cancelled, ret, wireLog, wireErr, stateVars, abortable,
                    panicking, apiVars >>
    /\ UNCHANGED crashed

(* Lines 285-303: EOF after the session was created ends the loop. *)
NextEOF ==
    /\ ~crashed /\ pc = "next" /\ s3multi /\ ~peeked.set
    /\ SrcNext(offset).eof
    /\ pc' = "wait"
    /\ UNCHANGED << ioVars, abortVars, uWaitRes, L, timeoutOn, srcVars, s3multi, sessionVars, cancelled,
                    ret, wireLog, wireErr, stateVars, abortable, panicking,
                    crashed, apiVars >>

(* Lines 305-322: the first slice is shorter than PartSize: putObject. *)
NextFirstSmall ==
    /\ ~crashed /\ pc = "next" /\ ~s3multi /\ ~peeked.set
    /\ LET r == SrcNext(offset)
           w == CopyBuffer(hparts, hopen, r.size)
       IN /\ ~r.eof
          /\ w.h[1] < PartSize
          /\ hparts' = w.h /\ hopen' = w.open
          /\ offset' = offset + r.size
          /\ sr' = r.size
          /\ live' = live + 1
    /\ pc' = "put"
    /\ UNCHANGED << ioVars, abortVars, uWaitRes, L, timeoutOn, peeked, s3multi, sessionVars, cancelled,
                    ret, wireLog, wireErr, stateVars, abortable, panicking,
                    crashed, apiVars >>

(* A variant of NextFirstPeekEOF that ignores the read-ahead's EOF and     *)
(* starts a multi-part upload for an input of exactly PartSize bytes.      *)
NextFirstPeekEOF_AsMultipart ==
    /\ ~crashed /\ pc = "next" /\ ~s3multi /\ ~peeked.set
    /\ LET r == SrcNext(offset)
           w == CopyBuffer(hparts, hopen, r.size)
       IN /\ ~r.eof
          /\ ~(w.h[1] < PartSize)
          /\ SrcNext(offset + r.size).eof
          /\ hparts' = w.h /\ hopen' = w.open
          /\ offset' = offset + r.size
          /\ sr' = r.size
          /\ live' = live + 1
    /\ pc' = "create"
    /\ UNCHANGED << ioVars, abortVars, uWaitRes, L, timeoutOn, peeked, s3multi, sessionVars, cancelled,
                    ret, wireLog, wireErr, stateVars, abortable, panicking,
                    crashed, apiVars >>

(* Lines 323-329: the first slice is full and the read-ahead hits EOF:     *)
(* putObject.                                                              *)
NextFirstPeekEOF ==
    /\ ~crashed /\ pc = "next" /\ ~s3multi /\ ~peeked.set
    /\ LET r == SrcNext(offset)
           w == CopyBuffer(hparts, hopen, r.size)
       IN /\ ~r.eof
          /\ ~(w.h[1] < PartSize)
          /\ SrcNext(offset + r.size).eof
          /\ hparts' = w.h /\ hopen' = w.open
          /\ offset' = offset + r.size
          /\ sr' = r.size
          /\ live' = live + 1
    /\ pc' = "put"
    /\ UNCHANGED << ioVars, abortVars, uWaitRes, L, timeoutOn, peeked, s3multi, sessionVars, cancelled,
                    ret, wireLog, wireErr, stateVars, abortable, panicking,
                    crashed, apiVars >>

(* A variant of NextFirstPeekMore that copies the slice read ahead into    *)
(* the hasher as soon as it was read.                                      *)
NextFirstPeekMore_HashesPeek ==
    /\ ~crashed /\ pc = "next" /\ ~s3multi /\ ~peeked.set
    /\ LET r  == SrcNext(offset)
           w1 == CopyBuffer(hparts, hopen, r.size)
           r2 == SrcNext(offset + r.size)
           w  == CopyBuffer(w1.h, w1.open, r2.size)
       IN /\ ~r.eof
          /\ ~(w1.h[1] < PartSize)
          /\ ~r2.eof
          /\ hparts' = w.h /\ hopen' = w.open
          /\ offset' = offset + r.size + r2.size
          /\ sr' = r.size
          /\ peeked' = [set |-> TRUE, eof |-> FALSE, size |-> r2.size]
          /\ live' = live + 2
    /\ pc' = "create"
    /\ UNCHANGED << ioVars, abortVars, uWaitRes, L, timeoutOn, s3multi, sessionVars, cancelled, ret,
                    wireLog, wireErr, stateVars, abortable, panicking,
                    crashed, apiVars >>

(* Lines 323-335: the first slice is full and the read-ahead returns a     *)
(* second slice, which is kept in peeked: a multi-part upload.             *)
NextFirstPeekMore ==
    /\ ~crashed /\ pc = "next" /\ ~s3multi /\ ~peeked.set
    /\ LET r  == SrcNext(offset)
           w  == CopyBuffer(hparts, hopen, r.size)
           r2 == SrcNext(offset + r.size)
       IN /\ ~r.eof
          /\ ~(w.h[1] < PartSize)
          /\ ~r2.eof
          /\ hparts' = w.h /\ hopen' = w.open
          /\ offset' = offset + r.size + r2.size
          /\ sr' = r.size
          /\ peeked' = [set |-> TRUE, eof |-> FALSE, size |-> r2.size]
          /\ live' = live + 2
    /\ pc' = "create"
    /\ UNCHANGED << ioVars, abortVars, uWaitRes, L, timeoutOn, s3multi, sessionVars, cancelled, ret,
                    wireLog, wireErr, stateVars, abortable, panicking,
                    crashed, apiVars >>

(* Lines 278-315 with s3multi # nil: the next slice, from the read-ahead   *)
(* or from the source, is hashed and becomes the next part.                *)
NextPart ==
    /\ ~crashed /\ pc = "next" /\ s3multi
    /\ LET r == IF peeked.set THEN peeked ELSE SrcNext(offset)
           w == CopyBuffer(hparts, hopen, r.size)
       IN /\ ~r.eof
          /\ hparts' = w.h /\ hopen' = w.open
          /\ offset' = IF peeked.set THEN offset ELSE offset + r.size
          /\ live' = IF peeked.set THEN live ELSE live + 1
          /\ sr' = r.size
    /\ peeked' = NoPeek
    /\ pc' = "partid"
    /\ UNCHANGED << ioVars, abortVars, uWaitRes, L, timeoutOn, s3multi, sessionVars, cancelled, ret,
                    wireLog, wireErr, stateVars, abortable, panicking,
                    crashed, apiVars >>


(* putObject, lines 403-444: one PutObject with the slice (or the empty    *)
(* reader) as its body, GetObjectAttributes when it succeeded, and the     *)
(* deferred rc.Close().                                                    *)
PutObject ==
    /\ ~crashed /\ pc = "put"
    /\ \E ok \in BOOLEAN :
          /\ wireLog' = IF ok
                THEN wireLog \o << Call("PutObject", 0, sr),
                                   Call("GetObjectAttributes", 0, 0) >>
                ELSE Append(wireLog, Call("PutObject", 0, sr))
          /\ wireErr' = (wireErr \/ ~ok)
          /\ ret' = IF ok THEN "ok" ELSE "err"
    /\ live' = IF sr > 0 THEN live - 1 ELSE live
    /\ pc' = "returned"
    /\ UNCHANGED << ioVars, abortVars, uWaitRes, L, timeoutOn, offset, hparts, hopen, sr, peeked, s3multi,
                    sessionVars, cancelled, stateVars, abortable, panicking,
                    crashed, apiVars >>

(* NewS3UploadParts, lines 52-117, called at lines 343-352 of upload: the  *)
(* CreateMultipartUpload call; on success the S3UploadState is built (the  *)
(* literal of lines 74-81 names no mu, so S3UploadState.mu stays nil) and  *)
(* the ConcurrentParts workers are started.                                *)
Create ==
    /\ ~crashed /\ pc = "create"
    /\ wireLog' = Append(wireLog, Call("CreateMultipartUpload", 0, 0))
    /\ \E ok \in BOOLEAN :
          IF ok
          THEN /\ s3multi' = TRUE
               /\ stMu' = "nil"
               /\ pcW' = [w \in Workers |-> "idle"]
               /\ pc' = "register"
               /\ UNCHANGED << ret, wireErr >>
          ELSE /\ ret' = "err"
               /\ wireErr' = TRUE
               /\ pc' = "returned"
               /\ UNCHANGED << s3multi, stMu, pcW >>
    /\ UNCHANGED << ioVars, abortVars, uWaitRes, L, timeoutOn, srcVars, lastPartID,
                    pending, part, wq, body, resCh, cancelled, waiter,
                    waitRes, stateVars, abortable, panicking, crashed,
                    apiVars >>

(* Uploader.registerAbortable, lines 86-90, called at line 360 of upload:  *)
(* under Uploader.mu the session is stored in the abortable map.           *)
Register ==
    /\ ~crashed /\ pc = "register"
    /\ uMu = "free"
    /\ abortable' = abortable \cup {Sess}
    /\ pc' = "partid"
    /\ UNCHANGED << ioVars, abortVars, uWaitRes, L, timeoutOn, srcVars, s3multi,
                    sessionVars, cancelled, ret, wireLog, wireErr, stateVars,
                    panicking, crashed, apiVars >>

(* Lines 363-368: NextPartID hands out the next part number. *)
PartIDOk ==
    /\ ~crashed /\ pc = "partid"
    /\ NextPartID(lastPartID).err = "nil"
    /\ lastPartID' = NextPartID(lastPartID).last
    /\ pc' = "submit"
    /\ UNCHANGED << ioVars, abortVars, uWaitRes, L, timeoutOn, srcVars, s3multi, stMu, pending, part, pcW,
                    wq, body, resCh, cancelled, waiter, waitRes, ret, wireLog, wireErr,
                    stateVars, abortable, panicking, crashed, apiVars >>

(* Lines 363-366: NextPartID failed, upload returns the error. *)
PartIDMax ==
    /\ ~crashed /\ pc = "partid"
    /\ NextPartID(lastPartID).err # "nil"
    /\ lastPartID' = NextPartID(lastPartID).last
    /\ ret' = "err"
    /\ pc' = "returned"
    /\ UNCHANGED << ioVars, abortVars, uWaitRes, L, timeoutOn, srcVars, s3multi, stMu, pending, part, pcW,
                    wq, body, resCh, cancelled, waiter, waitRes, wireLog, wireErr,
                    stateVars, abortable, panicking, crashed, apiVars >>

(* S3UploadParts.UploadPart, lines 189-228, called at line 380: the        *)
(* pending counter is incremented and a submitter goroutine is started     *)
(* for the queuedPart; the call does not block.  The goroutine of lines    *)
(* 381-384 closes the slice once q.ch yields.                              *)
UploadPart ==
    /\ ~crashed /\ pc = "submit"
    /\ pending' = pending + 1
    /\ part' = [part EXCEPT ![lastPartID] = "queued"]
    /\ body' = [body EXCEPT ![lastPartID] = sr]
    /\ pc' = "next"
    /\ UNCHANGED << ioVars, abortVars, uWaitRes, L, timeoutOn, srcVars, s3multi, stMu, lastPartID, pcW, wq, resCh,
                    cancelled, waiter, waitRes, ret, wireLog, wireErr,
                    stateVars, abortable, panicking, crashed, apiVars >>

(* Lines 99 and 204: a submitter's send on p.ch meets an idle worker's     *)
(* receive.                                                                *)
Handoff(w, i) ==
    /\ ~crashed /\ ~cancelled
    /\ pcW[w] = "idle" /\ part[i] = "queued"
    /\ pcW' = [pcW EXCEPT ![w] = "got"]
    /\ wq' = [wq EXCEPT ![w] = i]
    /\ part' = [part EXCEPT ![i] = "handed"]
    /\ UNCHANGED << ioVars, abortVars, uWaitRes, L, timeoutOn, pc, srcVars, s3multi, stMu, lastPartID,
                    pending, resCh, body, cancelled, waiter, waitRes, ret, wireLog,
                    wireErr, stateVars, abortable, panicking, crashed,
                    apiVars >>

(* Lines 108-110: an idle worker sees the context cancelled and returns. *)
WorkerExit(w) ==
    /\ ~crashed /\ cancelled
    /\ pcW[w] = "idle"
    /\ pcW' = [pcW EXCEPT ![w] = "exited"]
    /\ UNCHANGED << ioVars, abortVars, uWaitRes, L, timeoutOn, pc, srcVars, s3multi, stMu, lastPartID,
                    pending, part, wq, body, resCh, cancelled, waiter, waitRes, ret,
                    wireLog, wireErr, stateVars, abortable, panicking,
                    crashed, apiVars >>

(* Lines 102 and 232-243: the worker evaluates p.uploadPart(q.part), which *)
(* calls s3client.UploadPart(p.ctx, part) without looking at the context.  *)
WireStart(w) ==
    /\ ~crashed
    /\ pcW[w] = "got"
    /\ wireLog' = Append(wireLog, Call("UploadPart", wq[w], body[wq[w]]))
    /\ pcW' = [pcW EXCEPT ![w] = "wire"]
    /\ part' = [part EXCEPT ![wq[w]] = "inflight"]
    /\ UNCHANGED << ioVars, abortVars, uWaitRes, L, timeoutOn, pc, srcVars, s3multi, stMu, lastPartID,
                    pending, wq, body, resCh, cancelled, waiter, waitRes, ret, wireErr,
                    stateVars, abortable, panicking, crashed, apiVars >>

(* S3UploadState.setPartResults, lines 282-288 of s3_hasher.go: p.mu.Lock() *)
(* on the nil mu panics before either map is written.  With a mutex the   *)
(* output and the error are stored under the part number.                  *)
setPartResults(i, ok) ==
    IF stMu = "nil"
    THEN /\ panicking' = TRUE
         /\ UNCHANGED << uploadPartOutputs, uploadPartErrors >>
    ELSE /\ uploadPartOutputs' = uploadPartOutputs \cup {i}
         /\ uploadPartErrors' = IF ok THEN uploadPartErrors \ {i}
                                 ELSE uploadPartErrors \cup {i}
         /\ UNCHANGED panicking

(* Lines 243-248 and 101-107: the wire call returns and uploadPart        *)
(* records the result; the deferred p.pending.Done() runs, also while the  *)
(* panic of setPartResults unwinds the goroutine.  A worker that gets past *)
(* setPartResults enters the select of lines 101-107 with q.ch (capacity   *)
(* 1, empty) ready to take the result and takes either that case or, when  *)
(* the context is cancelled, the Done case, which drops the result.        *)
WireReturn(w) ==
    /\ ~crashed
    /\ pcW[w] = "wire"
    /\ \E ok \in BOOLEAN :
          /\ setPartResults(wq[w], ok)
          /\ wireErr' = (wireErr \/ ~ok)
          /\ IF stMu = "nil"
             THEN /\ pcW' = [pcW EXCEPT ![w] = "panicked"]
                  /\ UNCHANGED resCh
             ELSE \E send \in BOOLEAN :
                     /\ send \/ cancelled
                     /\ pcW' = [pcW EXCEPT ![w] =
                                   IF send THEN "idle" ELSE "exited"]
                     /\ resCh' = IF send
                           THEN [resCh EXCEPT ![wq[w]] =
                                    IF ok THEN "nil" ELSE "error"]
                           ELSE resCh
    /\ pending' = pending - 1
    /\ part' = [part EXCEPT ![wq[w]] = "returned"]
    /\ UNCHANGED << ioVars, abortVars, uWaitRes, L, timeoutOn, pc, srcVars, s3multi, stMu, lastPartID, wq, body,
                    cancelled, waiter, waitRes, ret, wireLog, completedOutput,
                    completedError, objectAttributesOutput, abortable,
                    crashed, apiVars >>

(* A submitter whose Done branch leaves the pending counter to the worker. *)
Reject_NoDone(i) ==
    /\ ~crashed /\ cancelled
    /\ part[i] = "queued"
    /\ part' = [part EXCEPT ![i] = "rejecting"]
    /\ UNCHANGED << ioVars, abortVars, uWaitRes, L, timeoutOn, pc, srcVars, s3multi, stMu, lastPartID, pcW,
                    wq, body, resCh, cancelled, waiter, waitRes, ret, wireLog, wireErr,
                    stateVars, abortable, panicking, crashed, apiVars, pending >>

(* Lines 208-212: the submitter sees the context cancelled and decrements  *)
(* the pending counter.                                                    *)
Reject(i) ==
    /\ ~crashed /\ cancelled
    /\ part[i] = "queued"
    /\ pending' = pending - 1
    /\ part' = [part EXCEPT ![i] = "rejecting"]
    /\ UNCHANGED << ioVars, abortVars, uWaitRes, L, timeoutOn, pc, srcVars, s3multi, stMu, lastPartID, pcW,
                    wq, body, resCh, cancelled, waiter, waitRes, ret, wireLog, wireErr,
                    stateVars, abortable, panicking, crashed, apiVars >>

(* Lines 214-223: the submitter then records the cancellation cause as   *)
(* the part's result and sends it on q.ch.                                 *)
RejectRecord(i) ==
    /\ ~crashed
    /\ part[i] = "rejecting"
    /\ setPartResults(i, FALSE)
    /\ part' = [part EXCEPT ![i] = IF stMu = "nil" THEN "panicked"
                                   ELSE "rejected"]
    /\ resCh' = IF stMu = "nil" THEN resCh
                ELSE [resCh EXCEPT ![i] = "cause"]
    /\ UNCHANGED << ioVars, abortVars, uWaitRes, L, timeoutOn, pc, srcVars, s3multi, stMu, lastPartID,
                    pending, pcW, wq, body, cancelled, waiter, waitRes, ret,
                    wireLog, wireErr, completedOutput, completedError,
                    objectAttributesOutput, abortable, crashed, apiVars >>

(* The context of the upload, from which the session's is derived at line  *)
(* 58, is cancelled.                                                       *)
Cancel ==
    /\ ~crashed /\ ~cancelled
    /\ cancelled' = TRUE
    /\ UNCHANGED << ioVars, abortVars, uWaitRes, L, timeoutOn, pc, srcVars, s3multi, sessionVars, ret,
                    wireLog, wireErr, stateVars, abortable, panicking,
                    crashed, apiVars >>

(* S3UploadParts.Wait, lines 254-264, called at line 387: the timer is     *)
(* armed and the goroutine that waits for the pending counter is started.  *)
WaitCall ==
    /\ ~crashed /\ pc = "wait"
    /\ waiter' = "blocked"
    /\ pc' = "waiting"
    /\ UNCHANGED << ioVars, abortVars, uWaitRes, L, timeoutOn, srcVars, s3multi, stMu, lastPartID, pending,
                    part, pcW, wq, body, resCh, cancelled, waitRes, ret, wireLog, wireErr,
                    stateVars, abortable, panicking, crashed, apiVars >>

(* Lines 261-264: p.pending.Wait() returns and done receives true. *)
WaiterDone ==
    /\ ~crashed
    /\ waiter = "blocked" /\ pending = 0
    /\ waiter' = "sent"
    /\ UNCHANGED << ioVars, abortVars, uWaitRes, L, timeoutOn, pc, srcVars, s3multi, stMu, lastPartID,
                    pending, part, pcW, wq, body, resCh, cancelled, waitRes, ret, wireLog,
                    wireErr, stateVars, abortable, panicking, crashed,
                    apiVars >>

(* Lines 266-268: the select of Wait takes the done case. *)
WaitNil ==
    /\ ~crashed /\ pc = "waiting"
    /\ waiter = "sent"
    /\ waitRes' = "nil"
    /\ pc' = "check"
    /\ UNCHANGED << ioVars, abortVars, uWaitRes, L, timeoutOn, srcVars, s3multi, stMu, lastPartID, pending,
                    part, pcW, wq, body, resCh, cancelled, waiter, ret, wireLog, wireErr,
                    stateVars, abortable, panicking, crashed, apiVars >>

(* Lines 269-270 and 388-390: the select of Wait takes the Done case and   *)
(* upload returns the cause.                                               *)
WaitCause ==
    /\ ~crashed /\ pc = "waiting"
    /\ cancelled
    /\ waitRes' = "cause"
    /\ ret' = "err"
    /\ pc' = "returned"
    /\ UNCHANGED << ioVars, abortVars, uWaitRes, L, timeoutOn, srcVars, s3multi, stMu, lastPartID, pending,
                    part, pcW, wq, body, resCh, cancelled, waiter, wireLog, wireErr,
                    stateVars, abortable, panicking, crashed, apiVars >>

(* Lines 271-272 and 388-390: the timer fires first. *)
WaitTimeout ==
    /\ ~crashed /\ pc = "waiting"
    /\ timeoutOn
    /\ waitRes' = "timeout"
    /\ ret' = "err"
    /\ pc' = "returned"
    /\ UNCHANGED << ioVars, abortVars, uWaitRes, L, timeoutOn, srcVars, s3multi, stMu, lastPartID, pending,
                    part, pcW, wq, body, resCh, cancelled, waiter, wireLog, wireErr,
                    stateVars, abortable, panicking, crashed, apiVars >>


(* A variant of CompleteUpload that sends CompleteMultipartUpload even     *)
(* when completeParts reported a density error.                            *)
CompleteUpload_AlwaysSend(ok, attrOk) ==
    IF stMu = "nil" \/ uploadPartErrors # {}
    THEN /\ panicking' = TRUE
         /\ UNCHANGED << wireLog, wireErr, completedOutput, completedError,
                         objectAttributesOutput >>
    ELSE LET cp == completeParts(uploadPartOutputs)
         IN /\ wireLog' = IF ok
                  THEN wireLog \o << CallBackground("CompleteMultipartUpload", 0),
                                     CallBackground("GetObjectAttributes", 0) >>
                  ELSE Append(wireLog, CallBackground("CompleteMultipartUpload", 0))
            /\ wireErr' = (wireErr \/ ~ok \/ ~attrOk)
            /\ completedOutput' = IF ok THEN "out" ELSE "nil"
            /\ completedError' = IF ok THEN "nil" ELSE "wire error"
            /\ objectAttributesOutput' =
                  IF ok /\ attrOk THEN "attr" ELSE objectAttributesOutput
            /\ UNCHANGED panicking

(* A variant of CompleteUpload that makes its wire calls with the          *)
(* session's context p.ctx.                                                *)
CompleteUpload_SessionCtx(ok, attrOk) ==
    IF stMu = "nil" \/ uploadPartErrors # {}
    THEN /\ panicking' = TRUE
         /\ UNCHANGED << wireLog, wireErr, completedOutput, completedError,
                         objectAttributesOutput >>
    ELSE LET cp == completeParts(uploadPartOutputs)
         IN IF cp.err # "nil"
            THEN /\ completedError' = cp.err
                 /\ UNCHANGED << wireLog, wireErr, completedOutput,
                                 objectAttributesOutput, panicking >>
            ELSE /\ wireLog' = IF ok
                       THEN wireLog \o << Call("CompleteMultipartUpload", 0, 0),
                                          Call("GetObjectAttributes", 0, 0) >>
                       ELSE Append(wireLog, Call("CompleteMultipartUpload", 0, 0))
                 /\ wireErr' = (wireErr \/ ~ok \/ (ok /\ ~attrOk))
                 /\ completedOutput' = IF ok THEN "out" ELSE "nil"
                 /\ completedError' = IF ok THEN "nil" ELSE "wire error"
                 /\ objectAttributesOutput' =
                       IF ok THEN (IF attrOk THEN "attr" ELSE "nil")
                       ELSE objectAttributesOutput
                 /\ UNCHANGED panicking

(* S3UploadParts.CompleteUpload, lines 287-324.  completeParts locks the   *)
(* state's mu first (s3_hasher.go lines 294-295), which panics on a nil mu;*)
(* it dereferences every recorded output (line 301), which panics on a     *)
(* part recorded with a nil output.  Otherwise a density error is stored   *)
(* as completedError and nothing is sent; else CompleteMultipartUpload is  *)
(* called and, when it succeeded, GetObjectAttributes.                     *)
CompleteUpload(ok, attrOk) ==
    IF stMu = "nil" \/ uploadPartErrors # {}
    THEN /\ panicking' = TRUE
         /\ UNCHANGED << wireLog, wireErr, completedOutput, completedError,
                         objectAttributesOutput >>
    ELSE LET cp == completeParts(uploadPartOutputs)
         IN IF cp.err # "nil"
            THEN /\ completedError' = cp.err
                 /\ UNCHANGED << wireLog, wireErr, completedOutput,
                                 objectAttributesOutput, panicking >>
            ELSE /\ \E order \in RangeOrders(uploadPartOutputs) :
                       LET req == CompleteCall(SortFunc(LoopParts(order)))
                       IN wireLog' = IF ok
                             THEN wireLog \o
                                  << req, CallBackground("GetObjectAttributes", 0) >>
                             ELSE Append(wireLog, req)
                 /\ wireErr' = (wireErr \/ ~ok \/ (ok /\ ~attrOk))
                 /\ completedOutput' = IF ok THEN "out" ELSE "nil"
                 /\ completedError' = IF ok THEN "nil" ELSE "wire error"
                 /\ objectAttributesOutput' =
                       IF ok THEN (IF attrOk THEN "attr" ELSE "nil")
                       ELSE objectAttributesOutput
                 /\ UNCHANGED panicking

(* Lines 392-399 of upload after Wait returned nil: with no error in the   *)
(* state CompleteUpload is called, the session is unregistered when the    *)
(* state still holds no error, and upload returns the joined errors.       *)
Finish ==
    /\ ~crashed /\ pc = "check"
    /\ IF Errors = 0
       THEN /\ \E ok, attrOk \in BOOLEAN : CompleteUpload(ok, attrOk)
            /\ pc' = IF panicking' THEN "panicked" ELSE "returned"
            /\ ret' = IF panicking' THEN ret
                      ELSE IF completedError' = "nil" THEN "ok" ELSE "err"
            /\ abortable' = IF panicking' \/ completedError' # "nil"
                            THEN abortable
                            ELSE abortable \ {Sess}
       ELSE /\ pc' = "returned"
            /\ ret' = "err"
            /\ UNCHANGED << wireLog, wireErr, completedOutput, completedError,
                            objectAttributesOutput, panicking, abortable >>
    /\ UNCHANGED << ioVars, abortVars, uWaitRes, L, timeoutOn, srcVars, s3multi, sessionVars, cancelled,
                    uploadPartOutputs, uploadPartErrors, crashed, apiVars >>

(* S3UploadParts.AbortUpload, lines 329-356: under S3UploadParts.mu the    *)
(* AbortMultipartUpload call of session s is made with a context derived   *)
(* from context.Background().                                              *)
AbortCall(s) ==
    wireLog' = Append(wireLog, CallBackground("AbortMultipartUpload", s))

(* S3UploadParts.AbortUpload, lines 356-361: the response and the error    *)
(* are stored in the S3UploadState and the error is returned.              *)
AbortRecord(s, ok) ==
    /\ abortedOutput' = [abortedOutput EXCEPT ![s] = IF ok THEN "out" ELSE "nil"]
    /\ abortedError' =
          [abortedError EXCEPT ![s] = IF ok THEN "nil" ELSE "wire error"]
    /\ abortRet' = [abortRet EXCEPT ![s] = abortedError'[s]]

(* Uploader.Wait, lines 156-176, called by main once every object has     *)
(* been handed to Upload: upload has returned, its deferred pending.Done() *)
(* lets the WaitGroup goroutine send on done, and the select takes it.     *)
UWaitNil ==
    /\ ~crashed /\ uWaitRes = "none"
    /\ pc = "returned"
    /\ uWaitRes' = "nil"
    /\ UNCHANGED << ioVars, abortVars, L, timeoutOn, pc, srcVars, s3multi,
                    sessionVars, cancelled, ret, wireLog, wireErr, stateVars,
                    abortable, panicking, crashed, apiVars >>

(* Uploader.Wait, lines 171-172: the Uploader's context, a child of the    *)
(* context the upload was given, is done and the select takes that case.   *)
UWaitCause ==
    /\ ~crashed /\ uWaitRes = "none"
    /\ cancelled
    /\ uWaitRes' = "cause"
    /\ UNCHANGED << ioVars, abortVars, L, timeoutOn, pc, srcVars, s3multi,
                    sessionVars, cancelled, ret, wireLog, wireErr, stateVars,
                    abortable, panicking, crashed, apiVars >>

(* The Go runtime ends the process once a goroutine has panicked and no    *)
(* recover is in place (there is none in the repository).                  *)
Exit ==
    /\ panicking /\ ~crashed
    /\ crashed' = TRUE
    /\ UNCHANGED << ioVars, abortVars, uWaitRes, L, timeoutOn, pc, srcVars, s3multi, sessionVars,
                    cancelled, ret, wireLog, wireErr, stateVars, abortable,
                    panicking, apiVars >>

Next ==
    \/ NextEmpty
    \/ NextEOF
    \/ NextFirstSmall
    \/ NextFirstPeekEOF
    \/ NextFirstPeekMore
    \/ NextPart
    \/ PutObject
    \/ Create
    \/ Register
    \/ PartIDOk
    \/ PartIDMax
    \/ UploadPart
    \/ \E w \in Workers, i \in PartIDs : Handoff(w, i)
    \/ \E w \in Workers : WorkerExit(w)
    \/ \E w \in Workers : WireStart(w)
    \/ \E w \in Workers : WireReturn(w)
    \/ \E i \in PartIDs : Reject(i)
    \/ \E i \in PartIDs : RejectRecord(i)
    \/ Cancel
    \/ WaitCall
    \/ WaiterDone
    \/ WaitNil
    \/ WaitCause
    \/ WaitTimeout
    \/ Finish
    \/ UWaitNil
    \/ UWaitCause
    \/ Exit

Spec == Init /\ [][Next]_vars

(* The scheduler runs every goroutine that can take a step, wire calls     *)
(* return and the runtime ends a panicking process; cancellation and the   *)
(* timer are left to the environment.                                      *)
Progress ==
    \/ NextEmpty \/ NextEOF \/ NextFirstSmall \/ NextFirstPeekEOF
    \/ NextFirstPeekMore \/ NextPart \/ PutObject \/ Create \/ Register
    \/ PartIDOk
    \/ PartIDMax \/ UploadPart
    \/ \E w \in Workers, i \in PartIDs : Handoff(w, i)
    \/ \E w \in Workers : WorkerExit(w)
    \/ \E w \in Workers : WireStart(w)
    \/ \E w \in Workers : WireReturn(w)
    \/ \E i \in PartIDs : Reject(i)
    \/ \E i \in PartIDs : RejectRecord(i)
    \/ WaitCall \/ WaiterDone \/ WaitNil \/ WaitCause \/ Finish
    \/ UWaitNil \/ UWaitCause \/ Exit

FairSpec == Init /\ [][Next]_vars /\ WF_vars(Progress)

----------------------------------------------------------------------------
(* The session operations on a session set up by a test: the S3UploadState *)
(* is built by the test itself, with its mutex, and part results are       *)
(* recorded into it directly.                                              *)

TestInit ==
    /\ timeoutOn = FALSE
    /\ pc = "test"
    /\ offset = 0
    /\ hparts = << >>
    /\ hopen = FALSE
    /\ sr = 0
    /\ peeked = NoPeek
    /\ live = 0
    /\ s3multi = TRUE
    /\ stMu = "set"
    /\ lastPartID = 0
    /\ pending = 0
    /\ part = [i \in PartIDs |-> "none"]
    /\ pcW = [w \in Workers |-> "none"]
    /\ wq = [w \in Workers |-> 0]
    /\ resCh = [i \in PartIDs |-> "empty"]
    /\ body = [i \in PartIDs |-> 0]
    /\ waiter = "none"
    /\ waitRes = "none"
    /\ ret = "none"
    /\ wireLog = << >>
    /\ wireErr = FALSE
    /\ uploadPartOutputs = {}
    /\ uploadPartErrors = {}
    /\ completedOutput = "nil"
    /\ completedError = "nil"
    /\ objectAttributesOutput = "nil"
    /\ uMu = "free"
    /\ uWaitRes = "none"
    /\ abortPending = NoAbortPending
    /\ inflight = {}
    /\ abortedOutput = [s \in Sessions |-> "nil"]
    /\ abortedError = [s \in Sessions |-> "nil"]
    /\ abortRet = [s \in Sessions |-> "none"]
    /\ finish = [s \in Sessions |-> "none"]
    /\ stores = << >>
    /\ slices = << >>
    /\ nextRet = NoNextRet
    /\ hwrites = 0
    /\ hwritten = 0
    /\ keyRet = NoKeyRet
    /\ report = NoReport
    /\ manifest = "none"
    /\ upl = [q \in Uploads |-> NoUpload]
    /\ objW = [w \in ObjWorkers |-> [pc |-> "select", q |-> 0]]
    /\ qres = [q \in Uploads |-> << >>]
    /\ uPending = 0
    /\ uClosed = FALSE
    /\ pMu = 0
    /\ caller = [c \in Callers |-> NoCaller]
    /\ sessW = [s \in Pools |-> NoPool]
    /\ sessPart = [s \in Pools |-> [i \in PartIDs |-> NoPoolPart]]
    /\ sessDone = {}
    /\ glob = NoGlob
    /\ panicking = FALSE
    /\ crashed = FALSE
    /\ calls = 0
    /\ lastRet = [id |-> 0, err |-> "nil", last |-> 0]
    /\ lastOp = "none"

ApiInit ==
    /\ TestInit
    /\ L = 0
    /\ src = NoSource
    /\ keyIn = NoKey
    /\ resIn = NoResults
    /\ cancelled = FALSE
    /\ abortable = {}

NoCompleteCall ==
    \A k \in 1..Len(wireLog) : wireLog[k].op # "CompleteMultipartUpload"

uploadVars == << L, timeoutOn, pc, srcVars, s3multi, stMu, pending, part,
                 pcW, wq, resCh, body, waiter, waitRes, ret, uWaitRes,
                 ioVars >>

(* A call of NextPartID, lines 148-159. *)
ApiNextPartID ==
    /\ ~panicking /\ calls < MaxCalls
    /\ calls' = calls + 1
    /\ lastRet' = NextPartID(lastPartID)
    /\ lastPartID' = NextPartID(lastPartID).last
    /\ lastOp' = "NextPartID"
    /\ UNCHANGED << uploadVars, cancelled, abortable, abortVars, wireLog,
                    wireErr, stateVars, panicking, crashed >>

(* The test stores the result of part i through setPartResults. *)
ApiRecord(i, ok) ==
    /\ ~panicking /\ NoCompleteCall
    /\ i \notin uploadPartOutputs
    /\ setPartResults(i, ok)
    /\ lastOp' = "setPartResults"
    /\ UNCHANGED << uploadVars, cancelled, abortable, abortVars, lastPartID,
                    wireLog, wireErr, completedOutput, completedError,
                    objectAttributesOutput, crashed, calls, lastRet >>

(* A call of CompleteUpload. *)
ApiCompleteUpload ==
    /\ ~panicking /\ NoCompleteCall
    /\ \E ok, attrOk \in BOOLEAN : CompleteUpload(ok, attrOk)
    /\ lastOp' = "CompleteUpload"
    /\ UNCHANGED << uploadVars, cancelled, abortable, abortVars, lastPartID,
                    uploadPartOutputs, uploadPartErrors, crashed, calls,
                    lastRet >>

(* A call of S3UploadParts.Cancel, lines 164-166. *)
ApiCancel ==
    /\ ~panicking /\ ~cancelled
    /\ cancelled' = TRUE
    /\ lastOp' = "Cancel"
    /\ UNCHANGED << uploadVars, abortable, abortVars, lastPartID, wireLog,
                    wireErr, stateVars, panicking, crashed, calls, lastRet >>

(* A call of S3UploadParts.AbortUpload, lines 329-362. *)
ApiAbortUpload ==
    /\ ~panicking /\ abortRet[Sess] = "none"
    /\ AbortCall(Sess)
    /\ \E ok \in BOOLEAN : AbortRecord(Sess, ok)
    /\ lastOp' = "AbortUpload"
    /\ UNCHANGED << uploadVars, cancelled, abortable, uMu, abortPending,
                    inflight, finish, lastPartID, wireErr, stateVars, panicking,
                    crashed, calls, lastRet >>

ApiNext ==
    \/ ApiNextPartID
    \/ \E i \in 1..MaxRecordID, ok \in BOOLEAN : ApiRecord(i, ok)
    \/ ApiCompleteUpload
    \/ ApiCancel
    \/ ApiAbortUpload
    \/ Exit

ApiSpec == ApiInit /\ [][ApiNext]_vars

----------------------------------------------------------------------------
(* Uploader.AbortPending on a registry of sessions, while the goroutines   *)
(* of uploads that are still running may register further sessions.        *)

AbortInit ==
    /\ TestInit
    /\ L = 0
    /\ src = NoSource
    /\ keyIn = NoKey
    /\ resIn = NoResults
    /\ cancelled \in BOOLEAN
    /\ abortable \in SUBSET Sessions

(* Everything outside the registry, the aborts and the finishing uploads. *)
finishFrame == << uploadVars, cancelled, lastPartID, wireErr, stateVars,
                 panicking, crashed, apiVars >>

abortFrame == << finishFrame, finish >>

(* Lines 131-145: AbortPending takes Uploader.mu, starts the goroutine     *)
(* that ranges over the abortable map and blocks in its select.            *)
AbortPendingCall ==
    /\ abortPending.caller = "none"
    /\ uMu = "free"
    /\ uMu' = "AbortPending"
    /\ abortPending' = [abortPending EXCEPT !.caller = "blocked",
                                            !.reg = abortable]
    /\ UNCHANGED << abortFrame, abortable, inflight, abortedOutput,
                    abortedError, abortRet, wireLog >>

(* Lines 137-138: the range yields a session not yet visited and           *)
(* AbortUpload issues its AbortMultipartUpload.  The loop body runs in one *)
(* goroutine, so the previous AbortUpload has returned.  AbortUpload takes *)
(* the session's S3UploadParts.mu (line 330), which a CompleteUpload of    *)
(* the session holds until its wire call has returned.                     *)
AbortUploadCall(s) ==
    /\ abortPending.caller # "none" /\ ~abortPending.finished
    /\ inflight = {}
    /\ finish[s] # "CompleteUpload"
    /\ s \in abortable \ abortPending.visited
    /\ AbortCall(s)
    /\ inflight' = inflight \cup {s}
    /\ abortPending' = [abortPending EXCEPT !.visited = @ \cup {s}]
    /\ UNCHANGED << abortFrame, abortable, uMu, abortedOutput, abortedError,
                    abortRet >>

(* A variant of AbortUploadReturn that keeps a session whose abort failed  *)
(* in the registry.                                                        *)
AbortUploadReturn_KeepOnError(s) ==
    /\ s \in inflight
    /\ \E ok \in BOOLEAN :
          /\ AbortRecord(s, ok)
          /\ abortable' = IF ok THEN abortable \ {s} ELSE abortable
    /\ inflight' = inflight \ {s}
    /\ UNCHANGED << abortFrame, uMu, abortPending, wireLog >>

(* Lines 138-139: AbortUpload returns, whatever the server answered, and   *)
(* the session is deleted from the abortable map.                          *)
AbortUploadReturn(s) ==
    /\ s \in inflight
    /\ \E ok \in BOOLEAN : AbortRecord(s, ok)
    /\ abortable' = abortable \ {s}
    /\ inflight' = inflight \ {s}
    /\ UNCHANGED << abortFrame, uMu, abortPending, wireLog >>

(* Lines 137-141: the range is over; it has yielded every session that was *)
(* in the map when it started (a session stored while it runs may or may   *)
(* not be yielded), and the goroutine offers true on done.                 *)
AbortRangeDone ==
    /\ abortPending.caller # "none" /\ ~abortPending.finished
    /\ inflight = {}
    /\ abortPending.reg \subseteq abortPending.visited
    /\ abortPending' = [abortPending EXCEPT !.finished = TRUE]
    /\ UNCHANGED << abortFrame, abortable, uMu, inflight, abortedOutput,
                    abortedError, abortRet, wireLog >>

(* Lines 144-146: the select receives from done; AbortPending returns and  *)
(* its deferred Unlock releases Uploader.mu.                               *)
AbortPendingReturn ==
    /\ abortPending.caller = "blocked" /\ abortPending.finished
    /\ abortPending' = [abortPending EXCEPT !.caller = "returned"]
    /\ uMu' = "free"
    /\ UNCHANGED << abortFrame, abortable, inflight, abortedOutput,
                    abortedError, abortRet, wireLog >>

(* Lines 147-149: the caller's context is done; AbortPending returns and   *)
(* releases Uploader.mu while the goroutine may still be running.          *)
AbortPendingGiveUp ==
    /\ abortPending.caller = "blocked" /\ abortPending.ctxDone
    /\ abortPending' = [abortPending EXCEPT !.caller = "gaveup"]
    /\ uMu' = "free"
    /\ UNCHANGED << abortFrame, abortable, inflight, abortedOutput,
                    abortedError, abortRet, wireLog >>

(* main.go lines 171-181: a signal cancels the context AbortPending was    *)
(* given.                                                                  *)
AbortCtxCancel ==
    /\ ~abortPending.ctxDone
    /\ abortPending' = [abortPending EXCEPT !.ctxDone = TRUE]
    /\ UNCHANGED << abortFrame, abortable, uMu, inflight, abortedOutput,
                    abortedError, abortRet, wireLog >>

(* registerAbortable, lines 86-90, called by an upload that is still       *)
(* running: it needs Uploader.mu.                                          *)
AbortRegister(s) ==
    /\ uMu = "free"
    /\ s \notin abortable
    /\ s \notin abortPending.reg \cup abortPending.visited
    /\ abortable' = abortable \cup {s}
    /\ UNCHANGED << abortFrame, uMu, abortPending, inflight, abortedOutput,
                    abortedError, abortRet, wireLog >>

AbortNext ==
    \/ AbortPendingCall
    \/ \E s \in Sessions : AbortUploadCall(s)
    \/ \E s \in Sessions : AbortUploadReturn(s)
    \/ AbortRangeDone
    \/ AbortPendingReturn
    \/ AbortPendingGiveUp
    \/ AbortCtxCancel
    \/ \E s \in Sessions : AbortRegister(s)

AbortSpec == AbortInit /\ [][AbortNext]_vars


----------------------------------------------------------------------------
(* Uploader.AbortPending on the main goroutine, after Uploader.Wait        *)
(* returned because of a cancellation, while object workers are still in   *)
(* lines 392-397 of Uploader.upload for sessions whose parts are all       *)
(* recorded: CompleteUpload, then unregisterAbortable.                     *)

(* Whether session s has been registered (line 318 of upload). *)
Registered(s) == s \in abortable \cup abortPending.visited

(* upload line 393, CompleteUpload lines 288-313: the session's            *)
(* S3UploadParts.mu is taken, which an AbortUpload of the session holds    *)
(* until its wire call has returned, and CompleteMultipartUpload is        *)
(* issued.                                                                 *)
FinishCompleteCall(s) ==
    /\ finish[s] = "none" /\ Registered(s)
    /\ s \notin inflight
    /\ wireLog' = Append(wireLog, CallBackground("CompleteMultipartUpload", s))
    /\ finish' = [finish EXCEPT ![s] = "CompleteUpload"]
    /\ UNCHANGED << finishFrame, abortable, uMu, abortPending, inflight,
                    abortedOutput, abortedError, abortRet >>

(* CompleteUpload lines 313-324 and upload lines 394-399: the call         *)
(* returns and S3UploadParts.mu is released.  The server completes only a  *)
(* session that it has not aborted.  After an error the state holds an     *)
(* error, the session stays registered and upload returns.                 *)
FinishCompleteReturn(s) ==
    /\ finish[s] = "CompleteUpload"
    /\ \E ok \in BOOLEAN :
          /\ ok => abortedOutput[s] # "out"
          /\ finish' = [finish EXCEPT ![s] = IF ok THEN "completed"
                                            ELSE "failed"]
    /\ UNCHANGED << finishFrame, abortable, uMu, abortPending, inflight,
                    abortedOutput, abortedError, abortRet, wireLog >>

(* upload lines 394-396, unregisterAbortable lines 92-96: after a          *)
(* successful completion the session is deleted from the registry under    *)
(* Uploader.mu.                                                            *)
FinishUnregister(s) ==
    /\ finish[s] = "completed"
    /\ uMu = "free"
    /\ abortable' = abortable \ {s}
    /\ finish' = [finish EXCEPT ![s] = "unregistered"]
    /\ UNCHANGED << finishFrame, uMu, abortPending, inflight, abortedOutput,
                    abortedError, abortRet, wireLog >>

(* The sessions are those registered when main calls AbortPending, whose  *)
(* context is left alone.                                                  *)
FinishNext ==
    \/ AbortPendingCall
    \/ \E s \in Sessions : AbortUploadCall(s)
    \/ \E s \in Sessions : AbortUploadReturn(s)
    \/ AbortRangeDone
    \/ AbortPendingReturn
    \/ \E s \in Sessions : FinishCompleteCall(s)
    \/ \E s \in Sessions : FinishCompleteReturn(s)
    \/ \E s \in Sessions : FinishUnregister(s)

FinishSpec == AbortInit /\ [][FinishNext]_vars

----------------------------------------------------------------------------
(* The three Sources of source.go, each driven by Next and by Close on its *)
(* SourceReaders.  The input is an io.Reader holding the bytes 1, 2, .., L *)
(* that may return short reads, may return io.EOF together with its last   *)
(* bytes, and fails with a non-EOF error once src.failAt bytes were read.  *)
(* Writes to a temp file are taken to succeed.                             *)

Kinds == {"readerAt", "tempf", "mem"}

\* failAt of a reader that never fails.
NoFail == MaxLen + 1

Input == [i \in 1..L |-> i]

(* r.Read(p) with len(p) = ask at stream position pos, for a reader that   *)
(* hands out at most k bytes per call.                                     *)
ReaderRead(pos, ask, k, eager) ==
    LET end == Min(L, src.failAt)
    IN IF pos >= end
       THEN [n |-> 0, err |-> IF src.failAt <= L THEN "read error" ELSE "EOF"]
       ELSE LET n == Min(Min(ask, k), end - pos)
            IN [n |-> n,
                err |-> IF eager /\ pos + n = end
                        THEN (IF src.failAt <= L THEN "read error" ELSE "EOF")
                        ELSE "nil"]

(* A reader that ignores the limit N and reads on to the end of the input. *)
LimitRead_Unlimited(pos, N, k, eager) ==
    ReaderRead(pos, CopyBufSize, k, eager)

(* io.LimitReader(p.r, p.partSize).Read(chunk) with N bytes left. *)
LimitRead(pos, N, k, eager) ==
    IF N <= 0
    THEN [n |-> 0, err |-> "EOF"]
    ELSE ReaderRead(pos, Min(CopyBufSize, N), k, eager)

(* tempfSource.Next, the loop of lines 190-206: the bytes read are written *)
(* to the temp file and err becomes the result of that write.              *)
RECURSIVE TempfLoop(_, _, _, _, _, _)
TempfLoop(pos, N, data, failed, k, eager) ==
    LET r    == LimitRead(pos, N, k, eager)
        d    == data \o SubSeq(Input, pos + 1, pos + r.n)
        err  == IF r.n > 0 THEN "nil" ELSE r.err
        seen == failed \/ r.err = "read error"
    IN IF err # "nil"
       THEN [data |-> d, pos |-> pos + r.n, err |-> err, failed |-> seen]
       ELSE TempfLoop(pos + r.n, N - r.n, d, seen, k, eager)

(* memSource.Next, the loop of lines 268-279: the bytes read are appended  *)
(* to buf and any error ends the loop.                                     *)
RECURSIVE MemLoop(_, _, _, _, _, _)
MemLoop(pos, N, data, failed, k, eager) ==
    LET r    == LimitRead(pos, N, k, eager)
        d    == data \o SubSeq(Input, pos + 1, pos + r.n)
        seen == failed \/ r.err = "read error"
    IN IF r.err # "nil"
       THEN [data |-> d, pos |-> pos + r.n, err |-> r.err, failed |-> seen]
       ELSE MemLoop(pos + r.n, N - r.n, d, seen, k, eager)

NewSlice(store, off, size) ==
    [store |-> store, off |-> off, size |-> size, held |-> store # 0,
     closes |-> 0, lastClose |-> "none", releases |-> 0]

(* readerAtSource.Next, lines 146-164. *)
ReaderAtNext ==
    LET r == SrcNext(src.pos)
    IN /\ src' = [src EXCEPT !.pos = @ + r.size, !.calls = @ + 1]
       /\ nextRet' = [slice |-> ~r.eof, failed |-> FALSE,
                      err |-> IF r.eof THEN "EOF" ELSE "nil"]
       /\ slices' = IF r.eof THEN slices
                    ELSE Append(slices, NewSlice(0, src.pos, r.size))
       /\ UNCHANGED stores

(* A variant of TempfNext that leaves the empty temp file behind when the  *)
(* input is exhausted.                                                     *)
TempfNext_KeepsEmptyFile(k, eager) ==
    LET w  == TempfLoop(src.pos, PartSize, << >>, FALSE, k, eager)
        id == Len(stores) + 1
        ok == w.err = "EOF" /\ Len(w.data) > 0
    IN /\ src' = [src EXCEPT !.pos = w.pos, !.calls = @ + 1]
       /\ stores' = Append(stores,
             [data |-> w.data,
              state |-> IF w.err = "EOF" THEN "live" ELSE "removed"])
       /\ nextRet' = [slice |-> ok, failed |-> w.failed,
                      err |-> IF ok THEN "nil" ELSE w.err]
       /\ slices' = IF ok THEN Append(slices, NewSlice(id, 0, Len(w.data)))
                    ELSE slices

(* tempfSource.Next, lines 173-229: a temp file is created, filled, and    *)
(* removed again (cleanup) unless a slice is returned.                     *)
TempfNext(k, eager) ==
    LET w  == TempfLoop(src.pos, PartSize, << >>, FALSE, k, eager)
        id == Len(stores) + 1
        ok == w.err = "EOF" /\ Len(w.data) > 0
    IN /\ src' = [src EXCEPT !.pos = w.pos, !.calls = @ + 1]
       /\ stores' = Append(stores,
             [data |-> w.data, state |-> IF ok THEN "live" ELSE "removed"])
       /\ nextRet' = [slice |-> ok, failed |-> w.failed,
                      err |-> IF ok THEN "nil" ELSE w.err]
       /\ slices' = IF ok THEN Append(slices, NewSlice(id, 0, Len(w.data)))
                    ELSE slices

(* memSource.Next, lines 254-298: the buffer b comes from the pool (one    *)
(* that was Put back, or a new one), it is Put back when nothing was read, *)
(* and a slice is returned otherwise, whatever ended the loop.             *)
MemNext(b, k, eager) ==
    LET w  == MemLoop(src.pos, PartSize, << >>, FALSE, k, eager)
        ok == Len(w.data) > 0
        st == [data |-> w.data, state |-> IF ok THEN "live" ELSE "pooled"]
    IN /\ src' = [src EXCEPT !.pos = w.pos, !.calls = @ + 1]
       /\ stores' = IF b = Len(stores) + 1 THEN Append(stores, st)
                    ELSE [stores EXCEPT ![b] = st]
       /\ nextRet' = [slice |-> ok, failed |-> w.failed,
                      err |-> IF ok THEN "nil" ELSE "EOF"]
       /\ slices' = IF ok THEN Append(slices, NewSlice(b, 0, Len(w.data)))
                    ELSE slices

Pooled == {b \in 1..Len(stores) : stores[b].state = "pooled"}

srcFrame == << upVars, idVars, poolVars, glob, L, timeoutOn, pc, srcVars, s3multi, stMu, pending, part, pcW,
              wq, resCh, body, waiter, waitRes, ret, uWaitRes, cancelled,
              abortable, abortVars, lastPartID, wireLog, wireErr, stateVars,
              panicking, crashed, apiVars >>

(* One call of Next on the Source. *)
SourceNext ==
    /\ src.calls < MaxNextCalls
    /\ \E k \in 1..CopyBufSize, eager \in BOOLEAN :
          CASE src.kind = "readerAt" -> ReaderAtNext
            [] src.kind = "tempf" -> TempfNext(k, eager)
            [] src.kind = "mem" ->
                  \E b \in Pooled \cup {Len(stores) + 1} : MemNext(b, k, eager)
    /\ UNCHANGED << srcFrame, hwrites, hwritten, fnVars >>

(* A variant of SourceClose that closes the file and leaves it on disk. *)
SourceClose_KeepsFile(j) ==
    /\ j \in 1..Len(slices)
    /\ slices[j].closes < MaxCloses
    /\ LET s == slices[j]
           release == s.store # 0 /\ stores[s.store].state = "live" /\
                         (src.kind = "tempf" \/ s.held)
       IN /\ slices' = [slices EXCEPT ![j] =
                [s EXCEPT !.closes = @ + 1,
                          !.held = FALSE,
                          !.releases = IF release THEN @ + 1 ELSE @,
                          !.lastClose =
                              IF src.kind = "tempf" /\ s.closes > 0
                              THEN "file already closed" ELSE "nil"]]
          /\ stores' = IF release /\ src.kind # "tempf"
                       THEN [stores EXCEPT ![s.store].state = "pooled"]
                       ELSE stores
    /\ UNCHANGED << srcFrame, src, nextRet, hwrites, hwritten, fnVars >>

(* SourceReader.Close on the j-th slice: the no-op closer of line 158,     *)
(* tempfBuffer.Close (lines 241-244: os.File.Close fails on a file that is *)
(* already closed, and the deferred os.Remove runs either way) or          *)
(* memBuffer.Close (lines 311-317).                                        *)
SourceClose(j) ==
    /\ j \in 1..Len(slices)
    /\ slices[j].closes < MaxCloses
    /\ LET s == slices[j]
           release == s.store # 0 /\ stores[s.store].state = "live" /\
                         (src.kind = "tempf" \/ s.held)
       IN /\ slices' = [slices EXCEPT ![j] =
                [s EXCEPT !.closes = @ + 1,
                          !.held = FALSE,
                          !.releases = IF release THEN @ + 1 ELSE @,
                          !.lastClose =
                              IF src.kind = "tempf" /\ s.closes > 0
                              THEN "file already closed" ELSE "nil"]]
          /\ stores' = IF release
                       THEN [stores EXCEPT ![s.store].state =
                               IF src.kind = "tempf" THEN "removed"
                               ELSE "pooled"]
                       ELSE stores
    /\ UNCHANGED << srcFrame, src, nextRet, hwrites, hwritten, fnVars >>

SrcInit ==
    /\ TestInit
    /\ keyIn = NoKey
    /\ resIn = NoResults
    /\ L \in 0..MaxLen
    /\ cancelled = FALSE
    /\ abortable = {}
    /\ \E kind \in Kinds, f \in (0..L) \cup {NoFail} :
          src = [kind |-> kind, pos |-> 0, failAt |-> f, calls |-> 0]

SrcNextStep ==
    \/ SourceNext
    \/ \E j \in 1..(MaxNextCalls) : SourceClose(j)

SrcSpec == SrcInit /\ [][SrcNextStep]_vars

----------------------------------------------------------------------------
(* A HashParts driven directly by a sequence of Write calls of any lengths, *)
(* zero included.                                                          *)

HashInit ==
    /\ TestInit
    /\ L = 0
    /\ src = NoSource
    /\ keyIn = NoKey
    /\ resIn = NoResults
    /\ cancelled = FALSE
    /\ abortable = {}

hashFrame == << upVars, idVars, poolVars, glob, L, timeoutOn, pc, offset, sr, peeked, live, s3multi, stMu,
               pending, part, pcW, wq, resCh, body, waiter, waitRes, ret,
               uWaitRes, cancelled, abortable, abortVars, lastPartID,
               wireLog, wireErr, stateVars, panicking, crashed, apiVars,
               src, stores, slices, nextRet, fnVars >>

(* hp.Write(buf) with len(buf) = n, lines 88-136. *)
HashWriteCall(n) ==
    /\ hwrites < MaxWrites
    /\ hwritten + n <= MaxLen
    /\ LET w == HashWrite(hparts, hopen, n)
       IN /\ hparts' = w.h
          /\ hopen' = w.open
    /\ hwrites' = hwrites + 1
    /\ hwritten' = hwritten + n
    /\ UNCHANGED hashFrame

HashNext == \E n \in 0..MaxWriteLen : HashWriteCall(n)

HashSpec == HashInit /\ [][HashNext]_vars

----------------------------------------------------------------------------
(* S3Key, applied to keys given as sequences of bytes (0..255).  The keys  *)
(* are drawn from KeyBytes, which holds a control character (0x01), a      *)
(* letter (a), a continuation byte that is a C1 control after 0xC2 (0x80), *)
(* and the bytes of U+FFFD (EF BF BD), which also form printable two- and  *)
(* three-byte characters and ill-formed sequences.  MAX_KEY_BYTES is       *)
(* scaled down to MaxKeyBytes.                                             *)

KeyBytes == {1, 97, 128, 189, 191, 194, 239}

Keys == UNION {[1..n -> KeyBytes] : n \in 0..MaxKeyLen}

\* utf8.RuneError, U+FFFD.
RuneError == 65533

Drop(s, n) == SubSeq(s, n + 1, Len(s))

(* utf8.DecodeRune(p): the first rune of p and its width in bytes; an      *)
(* ill-formed or truncated sequence gives (RuneError, 1), an empty p gives *)
(* (RuneError, 0).                                                         *)
DecodeRune(p) ==
    LET bad     == [r |-> RuneError, w |-> 1]
        cont(i) == Len(p) >= i /\ p[i] \in 128..191
    IN IF p = << >> THEN [r |-> RuneError, w |-> 0]
       ELSE LET b == p[1]
            IN IF b < 128 THEN [r |-> b, w |-> 1]
               ELSE IF b \in 194..223
               THEN IF cont(2)
                    THEN [r |-> (b - 192) * 64 + (p[2] - 128), w |-> 2]
                    ELSE bad
               ELSE IF b \in 224..239
               THEN IF /\ cont(2) /\ cont(3)
                       /\ (b = 224 => p[2] >= 160)
                       /\ (b = 237 => p[2] <= 159)
                    THEN [r |-> (b - 224) * 4096 + (p[2] - 128) * 64
                                   + (p[3] - 128),
                          w |-> 3]
                    ELSE bad
               ELSE IF b \in 240..244
               THEN IF /\ cont(2) /\ cont(3) /\ cont(4)
                       /\ (b = 240 => p[2] >= 144)
                       /\ (b = 244 => p[2] <= 143)
                    THEN [r |-> (b - 240) * 262144 + (p[2] - 128) * 4096
                                   + (p[3] - 128) * 64 + (p[4] - 128),
                          w |-> 4]
                    ELSE bad
               ELSE bad

(* utf8.AppendRune(x, r), as the bytes it appends. *)
EncodeRune(r) ==
    IF r < 128 THEN << r >>
    ELSE IF r < 2048 THEN << 192 + (r \div 64), 128 + (r % 64) >>
    ELSE IF r \in 55296..57343 THEN << 239, 191, 189 >>
    ELSE IF r < 65536
    THEN << 224 + (r \div 4096), 128 + ((r \div 64) % 64), 128 + (r % 64) >>
    ELSE IF r < 1114112
    THEN << 240 + (r \div 262144), 128 + ((r \div 4096) % 64),
            128 + ((r \div 64) % 64), 128 + (r % 64) >>
    ELSE << 239, 191, 189 >>

(* unicode.IsControl(r): the category Cc. *)
IsControl(r) == r \in (0..31) \cup (127..159)

(* utf8.ValidString(s). *)
RECURSIVE ValidString(_)
ValidString(s) ==
    IF s = << >> THEN TRUE
    ELSE LET d == DecodeRune(s)
         IN IF d.r = RuneError /\ d.w = 1 THEN FALSE
            ELSE ValidString(Drop(s, d.w))

(* The test of lines 31 and 43: r is a rune S3Key copies through. *)
CopiedRune(p) ==
    LET d == DecodeRune(p)
    IN d.r # RuneError /\ d.w # 0 /\ ~IsControl(d.r)

(* net/url's shouldEscape(c, encodePathSegment). *)
ShouldEscape(c) ==
    ~ \/ c \in 48..57 \/ c \in 65..90 \/ c \in 97..122
      \/ c \in {45, 95, 46, 126}
      \/ c \in {36, 38, 43, 58, 61, 64}

HexDigit(n) == IF n < 10 THEN 48 + n ELSE 55 + n

(* A key whose rejected bytes are copied through as they are. *)
PathEscape_Raw(s) == s

(* url.PathEscape(s): %XX for every byte that must be escaped. *)
RECURSIVE PathEscape(_)
PathEscape(s) ==
    IF s = << >> THEN << >>
    ELSE LET c == Head(s)
         IN (IF ShouldEscape(c)
             THEN << 37, HexDigit(c \div 16), HexDigit(c % 16) >>
             ELSE << c >>) \o PathEscape(Tail(s))

(* The loop of lines 26-63 on the rest p of the key and the output x. *)
RECURSIVE KeyLoop(_, _)
KeyLoop(p, x) ==
    IF p = << >> THEN x
    ELSE IF CopiedRune(p)
    THEN LET d == DecodeRune(p)
         IN KeyLoop(Drop(p, d.w), x \o EncodeRune(d.r))
    ELSE LET found == {i \in 0..(Len(p) - 1) : CopiedRune(Drop(p, i))}
         IN IF found = {}
            THEN x \o PathEscape(p)
            ELSE LET i == CHOOSE m \in found : \A n \in found : m <= n
                     d == DecodeRune(Drop(p, i))
                 IN KeyLoop(Drop(p, i + d.w),
                            x \o PathEscape(SubSeq(p, 1, i))
                              \o EncodeRune(d.r))

(* S3Key(key, encode), lines 18-88: the key and the error it returns. *)
S3Key(key, encode) ==
    IF ~encode /\ ~ValidString(key)
    THEN [key |-> key, err |-> "not valid UTF-8"]
    ELSE LET x == KeyLoop(key, << >>)
         IN IF ~encode /\ x # key
            THEN [key |-> key, err |-> "control characters"]
            ELSE IF Len(x) > MaxKeyBytes
            THEN [key |-> key, err |-> "exceeds the maximum"]
            ELSE [key |-> x, err |-> "nil"]

KeyInit ==
    /\ TestInit
    /\ resIn = NoResults
    /\ L = 0
    /\ src = NoSource
    /\ cancelled = FALSE
    /\ abortable = {}
    /\ \E k \in Keys, e \in BOOLEAN : keyIn = [k |-> k, encode |-> e]

(* One call k, err := S3Key(Key, encodeKey). *)
S3KeyCall ==
    /\ keyRet.err = "none"
    /\ keyRet' = S3Key(keyIn.k, keyIn.encode)
    /\ UNCHANGED << srcFrame, src, stores, slices, nextRet, hwrites,
                    hwritten, keyIn, resIn, report, manifest >>

KeySpec == KeyInit /\ [][S3KeyCall]_vars

----------------------------------------------------------------------------
(* NewObjectReporting (unnamed/part_000). *)

(* A report that always takes the sum-of-sums. *)
ObjectChecksumKind_SumOfSums(count) == "SumOfSums"

(* Lines 66-72: the digest reported as ObjectChecksum, chosen by the       *)
(* hasher's Count().                                                       *)
ObjectChecksumKind(count) ==
    IF count = 1 THEN "Sum" ELSE "SumOfSums"

(* NewObjectReporting(st), lines 25-126.  A field of st that is a pointer   *)
(* or an error is TRUE when it is not nil.  The Errors block is given as   *)
(* the set of operations it names.                                         *)
NewObjectReporting(st) ==
    LET isPutObject       == st.obj /\ st.objOutput
        isMultipartObject == st.create /\ st.createOutput
        isCompleted ==
            \/ isPutObject /\ ~st.objError
            \/ /\ st.create /\ st.createOutput
               /\ st.completedOutput /\ ~st.completedError
        isAborted ==
            \/ isPutObject /\ st.objError
            \/ /\ st.create /\ st.createOutput
               /\ st.abortedOutput /\ ~st.abortedError
        errors ==
            (IF st.objError THEN {<< "PutObject", 0 >>} ELSE {})
            \cup (IF isMultipartObject
                  THEN {<< "UploadPart", i >> : i \in st.uploadPartErrors}
                  ELSE {})
            \cup (IF st.completedError
                  THEN {<< "CompleteMultipartUpload", 0 >>} ELSE {})
            \cup (IF st.abortedError
                  THEN {<< "AbortMultipartUpload", 0 >>} ELSE {})
            \cup (IF st.objectAttributesError
                  THEN {<< "GetObjectAttributes", 0 >>} ELSE {})
    IN IF ~isPutObject /\ ~isMultipartObject
       THEN [NoReport EXCEPT !.err = "invalid S3UploadState"]
       ELSE IF isCompleted /\ st.objectAttributesError
       THEN [NoReport EXCEPT !.err = "objectAttributesError"]
       ELSE IF isCompleted /\ ~st.objectAttributesOutput
       THEN [NoReport EXCEPT !.err = "nil GetObjectAttributesOutput"]
       ELSE [err |-> "nil",
             UploadId |-> ~isPutObject /\ ~(isCompleted \/ isAborted),
             Completed |-> isCompleted,
             Aborted |-> isAborted,
             ObjectChecksum |-> IF isCompleted
                                THEN ObjectChecksumKind(st.count)
                                ELSE "nil",
             Errors |-> errors]

(* NewObjectErrors(st), lines 357-376: the Errors block alone, in the same *)
(* form.  The key i of the uploadPartErrors map is reported as i + 1.      *)
NewObjectErrors(st) ==
    (IF st.objError THEN {<< "PutObject", 0 >>} ELSE {})
    \cup {<< "UploadPart", i + 1 >> : i \in st.uploadPartErrors}
    \cup (IF st.completedError
          THEN {<< "CompleteMultipartUpload", 0 >>} ELSE {})
    \cup (IF st.abortedError
          THEN {<< "AbortMultipartUpload", 0 >>} ELSE {})
    \cup (IF st.objectAttributesError
          THEN {<< "GetObjectAttributes", 0 >>} ELSE {})

(* What putObject returns (s3_uploader.go, lines 403-443): the outputs of  *)
(* the s3.Client are nil exactly when the call returned an error, and the  *)
(* attributes are fetched only after a successful PutObject.               *)
PutObjectResults ==
    {[hasState |-> TRUE,
      error |-> ~ok,
      st |-> [NoState EXCEPT !.obj = TRUE,
                             !.objOutput = ok,
                             !.objError = ~ok,
                             !.objectAttributesOutput = ok /\ attrOk,
                             !.objectAttributesError = ok /\ ~attrOk,
                             !.count = 1]] : ok, attrOk \in BOOLEAN}

(* What upload returns for a multi-part session (s3_uploader.go, lines     *)
(* 387-399), and what AbortUpload may add to the state afterwards: parts   *)
(* pe failed, Wait failed or not, CompleteUpload is called only without    *)
(* either, and only a session that was not completed is aborted.           *)
MultipartResults ==
    {[hasState |-> TRUE,
      error |-> waitErr \/ pe # {} \/ cmp = "err",
      st |-> [NoState EXCEPT !.create = TRUE,
                             !.createOutput = TRUE,
                             !.uploadPartErrors = pe,
                             !.completedOutput = cmp \in {"ok", "attrErr"},
                             !.completedError = cmp = "err",
                             !.objectAttributesOutput = cmp = "ok",
                             !.objectAttributesError = cmp = "attrErr",
                             !.abortedOutput = abt = "ok",
                             !.abortedError = abt = "err",
                             !.count = 2]] :
        << pe, waitErr, cmp, abt >> \in
            {x \in (SUBSET PartIDs) \X BOOLEAN
                      \X {"none", "ok", "attrErr", "err"}
                      \X {"none", "ok", "err"} :
                /\ x[3] # "none" => (x[1] = {} /\ ~x[2])
                /\ x[3] \in {"ok", "attrErr"} => x[4] = "none"}}

(* What Upload or upload returns without a state (s3_uploader.go, lines    *)
(* 205-215, 251, 283, 354 and 365).                                        *)
NilStateResults == {[hasState |-> FALSE, error |-> TRUE, st |-> NoState]}

ReportInit ==
    /\ TestInit
    /\ L = 0
    /\ src = NoSource
    /\ cancelled = FALSE
    /\ abortable = {}
    /\ keyIn = NoKey
    /\ resIn \in PutObjectResults \cup MultipartResults \cup NilStateResults

reportFrame == << srcFrame, src, stores, slices, nextRet, hwrites, hwritten,
                 keyIn, keyRet, resIn >>

(* NewObjectReporting called on the State of the results. *)
ReportCall ==
    /\ resIn.hasState
    /\ report.err = "none"
    /\ report' = NewObjectReporting(resIn.st)
    /\ UNCHANGED << reportFrame, manifest >>

(* The body of main's result loop (main.go, lines 84-117): a result with   *)
(* an Error is logged; otherwise the record of NewObjectReporting is       *)
(* written to the manifest, unless building it failed.                     *)
MainHandleResult ==
    /\ manifest = "none"
    /\ manifest' = IF resIn.error THEN "error logged"
                   ELSE IF NewObjectReporting(resIn.st).err # "nil"
                   THEN "manifest error logged"
                   ELSE "record written"
    /\ UNCHANGED << reportFrame, report >>

ReportNext == ReportCall \/ MainHandleResult

ReportSpec == ReportInit /\ [][ReportNext]_vars

----------------------------------------------------------------------------
(* The Uploader's queue: calls of Uploader.Upload and the                  *)
(* ConcurrentObjects object workers started by NewUploader.  What upload   *)
(* does for one object is the subject of Spec; here it is a single step    *)
(* with the outcomes Spec shows: upload returns, or, for an input longer   *)
(* than PartSize whose session was created, a goroutine of the session     *)
(* panics in setPartResults (the nil S3UploadState.mu) and the process     *)
(* exits.                                                                  *)

UploadInit ==
    /\ TestInit
    /\ L = 0
    /\ src = NoSource
    /\ cancelled = FALSE
    /\ abortable = {}
    /\ keyIn = NoKey
    /\ resIn = NoResults

upFrame == << idVars, poolVars, glob, L, timeoutOn, pc, srcVars, s3multi, stMu, pending, part, pcW,
             wq, resCh, body, waiter, waitRes, ret, uWaitRes, cancelled,
             abortable, abortVars, lastPartID, wireLog, wireErr, stateVars,
             panicking, apiVars, src, stores, slices, nextRet, hwrites,
             hwritten, fnVars >>

(* Upload, lines 187-197: pending.Add(1) and the queueUpload is built; the *)
(* caller then waits in the select of line 199.                            *)
UploadCall(q) ==
    /\ ~crashed
    /\ upl[q].pc = "idle"
    /\ \E big \in BOOLEAN : upl' = [upl EXCEPT ![q] = [pc |-> "select",
                                                      big |-> big]]
    /\ uPending' = uPending + 1
    /\ UNCHANGED << upFrame, objW, qres, uClosed, crashed >>

(* Lines 200-202 of Upload and 67-68 of NewUploader: the hand-off over the *)
(* unbuffered p.queued to an object worker waiting in its select.          *)
ObjWorkerAccept(q, w) ==
    /\ ~crashed
    /\ upl[q].pc = "select"
    /\ objW[w].pc = "select"
    /\ upl' = [upl EXCEPT ![q].pc = "returned"]
    /\ objW' = [objW EXCEPT ![w] = [pc |-> "upload", q |-> q]]
    /\ UNCHANGED << upFrame, qres, uPending, uClosed, crashed >>

(* Lines 203-216 of Upload: p.ctx is done; pending.Done() and a result     *)
(* with a nil State and the cause is put on q.res.                         *)
UploadCancelled(q) ==
    /\ ~crashed
    /\ upl[q].pc = "select"
    /\ uClosed
    /\ uPending' = uPending - 1
    /\ qres' = [qres EXCEPT ![q] = Append(@, "nil state")]
    /\ upl' = [upl EXCEPT ![q].pc = "returned"]
    /\ UNCHANGED << upFrame, objW, uClosed, crashed >>

(* Line 69 of NewUploader: state, err := p.upload(...).  upload returns,   *)
(* running its deferred pending.Done() (line 240), or the process dies of  *)
(* the panic of a goroutine of the multi-part session.                     *)
ObjWorkerUpload(w) ==
    /\ ~crashed
    /\ objW[w].pc = "upload"
    /\ \E out \in (IF upl[objW[w].q].big THEN {"returned", "panic"}
                                        ELSE {"returned"}) :
          IF out = "returned"
          THEN /\ uPending' = uPending - 1
               /\ objW' = [objW EXCEPT ![w].pc = "send"]
               /\ UNCHANGED crashed
          ELSE /\ crashed' = TRUE
               /\ UNCHANGED << uPending, objW >>
    /\ UNCHANGED << upFrame, upl, qres, uClosed >>

(* Lines 70-75 of NewUploader: the results are sent on q.res, which has    *)
(* room for one, and the worker goes back to its select.                   *)
ObjWorkerSend(w) ==
    /\ ~crashed
    /\ objW[w].pc = "send"
    /\ qres' = [qres EXCEPT ![objW[w].q] = Append(@, "result")]
    /\ objW' = [objW EXCEPT ![w] = [pc |-> "select", q |-> 0]]
    /\ UNCHANGED << upFrame, upl, uPending, uClosed, crashed >>

(* Lines 76-77 of NewUploader: the worker's select takes p.ctx.Done(). *)
ObjWorkerExit(w) ==
    /\ ~crashed
    /\ objW[w].pc = "select"
    /\ uClosed
    /\ objW' = [objW EXCEPT ![w].pc = "exited"]
    /\ UNCHANGED << upFrame, upl, qres, uPending, uClosed, crashed >>

(* Uploader.Close, lines 180-182, or the cancellation of the context given *)
(* to NewUploader, from which p.ctx derives.                               *)
UploaderClose ==
    /\ ~crashed
    /\ ~uClosed
    /\ uClosed' = TRUE
    /\ UNCHANGED << upFrame, upl, objW, qres, uPending, crashed >>

UploadNext ==
    \/ \E q \in Uploads : UploadCall(q)
    \/ \E q \in Uploads, w \in ObjWorkers : ObjWorkerAccept(q, w)
    \/ \E q \in Uploads : UploadCancelled(q)
    \/ \E w \in ObjWorkers : ObjWorkerUpload(w)
    \/ \E w \in ObjWorkers : ObjWorkerSend(w)
    \/ \E w \in ObjWorkers : ObjWorkerExit(w)
    \/ UploaderClose

UploadSpec == UploadInit /\ [][UploadNext]_vars

(* Every goroutine that can take a step eventually takes one. *)
UploadFairSpec == UploadSpec /\ WF_vars(UploadNext)

----------------------------------------------------------------------------
(* NextPartID called by several goroutines at once on one session, each    *)
(* statement of its body a step of its own: the Lock, the test of line     *)
(* 152, the load and the store of 'p.lastPartID += 1', and the return with *)
(* the deferred Unlock.                                                    *)

PartIDInit ==
    /\ TestInit
    /\ L = 0
    /\ src = NoSource
    /\ cancelled = FALSE
    /\ abortable = {}
    /\ keyIn = NoKey
    /\ resIn = NoResults

idFrame == << upVars, poolVars, glob, L, timeoutOn, pc, srcVars, s3multi, stMu, pending, part,
             pcW, wq, resCh, body, waiter, waitRes, ret, uWaitRes, cancelled,
             abortable, abortVars, wireLog, wireErr, stateVars, panicking,
             crashed, apiVars, src, stores, slices, nextRet, hwrites,
             hwritten, fnVars >>

(* A NextPartID that does not take the mutex. *)
PartIDLock_NoMutex(c) ==
    /\ caller[c].pc = "idle"
    /\ caller[c].n < MaxCallsEach
    /\ caller' = [caller EXCEPT ![c].pc = "check", ![c].n = @ + 1]
    /\ UNCHANGED << idFrame, lastPartID, pMu >>

(* Line 149: p.mu.Lock(). *)
PartIDLock(c) ==
    /\ caller[c].pc = "idle"
    /\ caller[c].n < MaxCallsEach
    /\ pMu = 0
    /\ pMu' = c
    /\ caller' = [caller EXCEPT ![c].pc = "check", ![c].n = @ + 1]
    /\ UNCHANGED << idFrame, lastPartID >>

(* Lines 152-154: at MaxPartID the call returns (0, ErrMaxPartID) and the  *)
(* deferred Unlock runs; otherwise p.lastPartID is loaded for the +=.      *)
PartIDCheck(c) ==
    /\ caller[c].pc = "check"
    /\ IF lastPartID = MaxPartID
       THEN /\ caller' = [caller EXCEPT ![c].pc = "idle",
                                        ![c].got = Append(@, 0)]
            /\ pMu' = IF pMu = c THEN 0 ELSE pMu
       ELSE /\ caller' = [caller EXCEPT ![c].pc = "store",
                                        ![c].tmp = lastPartID]
            /\ UNCHANGED pMu
    /\ UNCHANGED << idFrame, lastPartID >>

(* Line 156: the store of p.lastPartID += 1. *)
PartIDStore(c) ==
    /\ caller[c].pc = "store"
    /\ lastPartID' = caller[c].tmp + 1
    /\ caller' = [caller EXCEPT ![c].pc = "return"]
    /\ UNCHANGED << idFrame, pMu >>

(* Line 158: return p.lastPartID, nil, and the deferred Unlock. *)
PartIDReturn(c) ==
    /\ caller[c].pc = "return"
    /\ caller' = [caller EXCEPT ![c].pc = "idle",
                                ![c].got = Append(@, lastPartID)]
    /\ pMu' = IF pMu = c THEN 0 ELSE pMu
    /\ UNCHANGED << idFrame, lastPartID >>

PartIDNext ==
    \E c \in Callers :
        \/ PartIDLock(c)
        \/ PartIDCheck(c)
        \/ PartIDStore(c)
        \/ PartIDReturn(c)

PartIDSpec == PartIDInit /\ [][PartIDNext]_vars

----------------------------------------------------------------------------
(* Several multi-part sessions open at once.  Each S3UploadParts has its   *)
(* own channel p.ch, its own context and the ConcurrentParts goroutines of  *)
(* lines 95-114 that receive from that channel.  A queuedPart is named by   *)
(* the session it was submitted to and its part number.                     *)

PoolInit ==
    /\ Init
    /\ L = 0
    /\ timeoutOn = FALSE

(* Everything outside the part workers' pools and processGlobs. *)
restFrame == << upVars, idVars, fnVars, src, stores, slices, nextRet, hwrites,
               hwritten, abortVars, apiVars, stateVars, sessionVars, srcVars,
               L, timeoutOn, pc, s3multi, ret, uWaitRes, cancelled, abortable,
               wireLog, wireErr, crashed >>

poolFrame == << restFrame, glob >>

NumSubmitted ==
    Cardinality({x \in Pools \X PartIDs : sessPart[x[1]][x[2]].st # "none"})

(* What a send on any session's channel could hand to a receiver. *)
PoolChan_Shared(s) ==
    {x \in Pools \X PartIDs : sessPart[x[1]][x[2]].st = "queued"}

(* Line 204: the queuedParts whose submitter is blocked in the send on the *)
(* p.ch of session s.                                                      *)
PoolChan(s) ==
    {x \in {s} \X PartIDs : sessPart[x[1]][x[2]].st = "queued"}

(* The queuedParts that workers of session s hold in position st. *)
PoolHeld(s, st) ==
    {x \in Pools \X PartIDs :
        sessPart[x[1]][x[2]].st = st /\ sessPart[x[1]][x[2]].by = s}

(* NewS3UploadParts, lines 52-117: CreateMultipartUpload succeeded and the *)
(* loop of lines 95-114 has started ConcurrentParts goroutines, each in    *)
(* the select on p.ch and p.ctx.Done().                                    *)
PoolNew(s) ==
    /\ ~panicking
    /\ ~sessW[s].started
    /\ sessW' = [sessW EXCEPT ![s] = [started |-> TRUE,
                                      idle |-> ConcurrentParts,
                                      exited |-> 0]]
    /\ UNCHANGED << poolFrame, panicking, sessPart, sessDone >>

(* S3UploadParts.UploadPart, lines 189-228: the next part of session s is  *)
(* wrapped in a queuedPart and its submitter goroutine blocks in the       *)
(* select of lines 203-224.                                                *)
PoolUploadPart(s, i) ==
    /\ ~panicking
    /\ sessW[s].started
    /\ NumSubmitted < MaxSubmits
    /\ sessPart[s][i].st = "none"
    /\ \A j \in 1..(i - 1) : sessPart[s][j].st # "none"
    /\ sessPart' = [sessPart EXCEPT ![s][i].st = "queued"]
    /\ UNCHANGED << poolFrame, panicking, sessW, sessDone >>

(* Lines 99 and 204: a submitter's send on the p.ch of session s meets     *)
(* the receive of a worker of session s in its select.                     *)
PoolHandoff(s) ==
    /\ ~panicking
    /\ s \notin sessDone
    /\ sessW[s].idle > 0
    /\ \E x \in PoolChan(s) :
          sessPart' = [sessPart EXCEPT ![x[1]][x[2]] =
                          [st |-> "handed", by |-> s]]
    /\ sessW' = [sessW EXCEPT ![s].idle = @ - 1]
    /\ UNCHANGED << poolFrame, panicking, sessDone >>

(* Lines 102 and 232-243: the worker calls p.uploadPart(q.part), which     *)
(* issues s3client.UploadPart(p.ctx, part).                                *)
PoolWireStart(s) ==
    /\ ~panicking
    /\ \E x \in PoolHeld(s, "handed") :
          sessPart' = [sessPart EXCEPT ![x[1]][x[2]].st = "inflight"]
    /\ UNCHANGED << poolFrame, panicking, sessW, sessDone >>

(* Lines 243-248 and 101-107: the wire call returns and uploadPart calls   *)
(* p.st.setPartResults, which panics on the nil mu; with a mutex the       *)
(* worker sends the result on q.ch and goes back to its select, or takes   *)
(* the Done case and returns.                                              *)
PoolWireReturn(s) ==
    /\ ~panicking
    /\ \E x \in PoolHeld(s, "inflight") :
          sessPart' = [sessPart EXCEPT ![x[1]][x[2]].st = "returned"]
    /\ IF stMu = "nil"
       THEN /\ panicking' = TRUE
            /\ UNCHANGED sessW
       ELSE /\ UNCHANGED panicking
            /\ \E send \in BOOLEAN :
                  /\ send \/ s \in sessDone
                  /\ sessW' = IF send
                              THEN [sessW EXCEPT ![s].idle = @ + 1]
                              ELSE [sessW EXCEPT ![s].exited = @ + 1]
    /\ UNCHANGED << poolFrame, sessDone >>

(* p.cancel, or the cancellation of the context p.ctx derives from. *)
PoolCancel(s) ==
    /\ ~panicking
    /\ sessW[s].started
    /\ s \notin sessDone
    /\ sessDone' = sessDone \cup {s}
    /\ UNCHANGED << poolFrame, panicking, sessW, sessPart >>

(* Lines 108-110: a worker in its select takes the Done case and returns. *)
PoolWorkerExit(s) ==
    /\ ~panicking
    /\ s \in sessDone
    /\ sessW[s].idle > 0
    /\ sessW' = [sessW EXCEPT ![s].idle = @ - 1, ![s].exited = @ + 1]
    /\ UNCHANGED << poolFrame, panicking, sessPart, sessDone >>

(* Lines 208-223: the submitter takes the Done case; its call of           *)
(* p.st.setPartResults panics on the nil mu.                               *)
PoolReject(s, i) ==
    /\ ~panicking
    /\ s \in sessDone
    /\ sessPart[s][i].st = "queued"
    /\ sessPart' = [sessPart EXCEPT ![s][i].st = "rejected"]
    /\ panicking' = (panicking \/ stMu = "nil")
    /\ UNCHANGED << poolFrame, sessW, sessDone >>

PoolNext ==
    \/ \E s \in Pools : PoolNew(s)
    \/ \E s \in Pools, i \in PartIDs : PoolUploadPart(s, i)
    \/ \E s \in Pools : PoolHandoff(s)
    \/ \E s \in Pools : PoolWireStart(s)
    \/ \E s \in Pools : PoolWireReturn(s)
    \/ \E s \in Pools : PoolCancel(s)
    \/ \E s \in Pools : PoolWorkerExit(s)
    \/ \E s \in Pools, i \in PartIDs : PoolReject(s, i)
    \/ Exit

PoolSpec == PoolInit /\ [][PoolNext]_vars

----------------------------------------------------------------------------
(* The goroutine of processGlobs for a non-empty list of globs.  The -key  *)
(* is blank (""), a prefix ending in a slash ("prefix/") or the name of    *)
(* one object ("name").  The matches of all globs are taken in the order   *)
(* filepath.Glob yields them; a match is a regular file ("file"), a path   *)
(* that cannot be stat'ed or opened ("unreadable"), a regular file whose   *)
(* key S3Key rejects ("badkey"), or a directory ("dir") holding some       *)
(* number of regular files.      What is sent on the channel is recorded   *)
(* by its target key: a file sent under a key that is the name of one      *)
(* object goes to "name", a walked file to the key joined from -key and    *)
(* its path, here the number of the match and of the file in it.           *)

GlobKeys == {"", "prefix/", "name"}
GlobMatches ==
    [kind : {"file", "unreadable", "badkey"}, files : {0}]
        \cup [kind : {"dir"}, files : 0..MaxDirFiles]

RECURSIVE SeqsUpTo(_, _)
SeqsUpTo(S, n) ==
    IF n = 0 THEN {<< >>}
    ELSE LET shorter == SeqsUpTo(S, n - 1)
         IN shorter \cup {Append(s, x) : s \in shorter, x \in S}

GlobInit == PartIDInit

globFrame == << restFrame, poolVars, panicking >>

(* Lines 60-68: the goroutine starts with nqueued = 0. *)
GlobStart ==
    /\ glob.pc = "idle"
    /\ \E key \in GlobKeys, ms \in SeqsUpTo(GlobMatches, MaxMatches) :
          glob' = [NoGlob EXCEPT !.pc = "match", !.key = key, !.matches = ms]
    /\ UNCHANGED globFrame

(* Line 90: a key that names one object. *)
IsName(key) == key # "" /\ key # "prefix/"

(* The target key of a source: -key itself, or -key joined with the path  *)
(* of the source, a path being the number of the match and of the file in  *)
(* a walked directory.                                                     *)
GlobKey(key, match, file) == [key |-> key, match |-> match, file |-> file]

(* The number of the match at the head of glob.matches. *)
MatchNo == MaxMatches + 1 - Len(glob.matches)

(* Line 90: if nqueued > 1 && Key != "" && !strings.HasSuffix(Key, "/"). *)
MultiUploadCheck(nqueued, key) == nqueued > 1 /\ IsName(key)

(* Lines 84-134: one match that is not a directory.  The test of line 90   *)
(* comes first; a path that cannot be stat'ed or opened is skipped; for a  *)
(* regular file nqueued is incremented, and the file is sent unless S3Key  *)
(* rejects its key.                                                        *)
GlobFile ==
    /\ glob.pc = "match" /\ glob.matches # << >>
    /\ Head(glob.matches).kind # "dir"
    /\ glob' =
         IF MultiUploadCheck(glob.nqueued, glob.key)
         THEN [glob EXCEPT !.pc = "ErrMultiUploadKey"]
         ELSE IF Head(glob.matches).kind = "unreadable"
         THEN [glob EXCEPT !.matches = Tail(@)]
         ELSE IF Head(glob.matches).kind = "badkey"
         THEN [glob EXCEPT !.matches = Tail(@), !.nqueued = @ + 1]
         ELSE [glob EXCEPT !.matches = Tail(@), !.nqueued = @ + 1,
                           !.sent = Append(@,
                              IF IsName(glob.key) THEN GlobKey("name", 0, 0)
                              ELSE GlobKey(glob.key, MatchNo, 0))]
    /\ UNCHANGED globFrame

(* Lines 90 and 135-139: a match that is a directory passes the test of    *)
(* line 90 and filepath.WalkDir is started on it.                          *)
GlobDir ==
    /\ glob.pc = "match" /\ glob.matches # << >>
    /\ Head(glob.matches).kind = "dir"
    /\ glob' =
         IF MultiUploadCheck(glob.nqueued, glob.key)
         THEN [glob EXCEPT !.pc = "ErrMultiUploadKey"]
         ELSE [glob EXCEPT !.pc = "walk", !.walk = Head(glob.matches).files]
    /\ UNCHANGED globFrame

(* Lines 139-204: the walk function on the next regular file of the        *)
(* directory: nqueued is incremented, the walk ends with ErrMultiUploadKey *)
(* when this is not the first source and the key names one object, else    *)
(* the file is sent under the key joined from -key and its path.           *)
GlobWalkFile ==
    /\ glob.pc = "walk" /\ glob.walk > 0
    /\ glob' =
         IF glob.nqueued + 1 > 1 /\ IsName(glob.key)
         THEN [glob EXCEPT !.pc = "ErrMultiUploadKey", !.nqueued = @ + 1]
         ELSE [glob EXCEPT !.walk = @ - 1, !.nqueued = @ + 1,
                           !.sent = Append(@,
                              GlobKey(glob.key, MatchNo, glob.walk))]
    /\ UNCHANGED globFrame

(* Lines 206-214: the walk is over and the next match is taken. *)
GlobWalkDone ==
    /\ glob.pc = "walk" /\ glob.walk = 0
    /\ glob' = [glob EXCEPT !.pc = "match", !.matches = Tail(@)]
    /\ UNCHANGED globFrame

(* Lines 61 and 217: the matches are exhausted and the channel is closed. *)
GlobDone ==
    /\ glob.pc = "match" /\ glob.matches = << >>
    /\ glob' = [glob EXCEPT !.pc = "closed"]
    /\ UNCHANGED globFrame

GlobNext ==
    \/ GlobStart
    \/ GlobFile
    \/ GlobDir
    \/ GlobWalkFile
    \/ GlobWalkDone
    \/ GlobDone

GlobSpec == GlobInit /\ [][GlobNext]_vars

----------------------------------------------------------------------------
(* Properties.                                                              *)

Count(op) == Cardinality({k \in 1..Len(wireLog) : wireLog[k].op = op})

CompleteIssued == Count("CompleteMultipartUpload") > 0

Submitted(i) == part[i] # "none"

(* The number of parts of an input of length L. *)
NParts == (L + PartSize - 1) \div PartSize

(* The size of the i-th PartSize-byte range of the input. *)
RangeSize(i) == IF i * PartSize <= L THEN PartSize ELSE L - (i - 1) * PartSize

Terminated == pc \in {"returned", "panicked"} \/ crashed

(* C1: once the session's context is cancelled no UploadPart wire call is  *)
(* initiated: every UploadPart call was started while Done was still open. *)
C1_NoUploadPartAfterCancel ==
    \A k \in 1..Len(wireLog) :
        wireLog[k].op = "UploadPart" => ~wireLog[k].ctxDone

(* C2: the result channel of every part submitted via UploadPart           *)
(* eventually yields a value.                                              *)
C2_EveryResultChannelYields ==
    \A i \in PartIDs : Submitted(i) ~> (resCh[i] # "empty")

(* C3: when Wait has returned nil every submitted part has its result     *)
(* recorded in the UploadState, and a part's result is recorded before its *)
(* result channel yields.                                                  *)
C3_WaitNilMeansRecorded ==
    /\ waitRes = "nil" =>
          \A i \in PartIDs : Submitted(i) => i \in uploadPartOutputs
    /\ \A i \in PartIDs : resCh[i] # "empty" => i \in uploadPartOutputs

(* C4: once upload is past Wait, CompleteMultipartUpload has been issued   *)
(* if and only if Wait returned nil and no error is recorded; it is never  *)
(* issued while an assigned part has a failed or unrecorded result.        *)
C4_CompleteIffWaitNilAndNoErrors ==
    /\ (pc \in {"returned", "panicked"} /\ waitRes # "none") =>
          (CompleteIssued <=> (waitRes = "nil" /\ uploadPartErrors = {}))
    /\ CompleteIssued =>
          \A i \in 1..lastPartID :
              i \in uploadPartOutputs /\ i \notin uploadPartErrors

(* C5: with the wire call succeeding, CompleteUpload returns no error if   *)
(* and only if the recorded part numbers are exactly 1..N, and the         *)
(* out-of-order error for every other set.                                 *)
C5_CompleteUploadIffDense ==
    (lastOp = "CompleteUpload" /\ ~panicking
        /\ completedError # "wire error") =>
        IF uploadPartOutputs = 1..Cardinality(uploadPartOutputs)
        THEN completedError = "nil"
        ELSE completedError = "out-of-order partID"

C7_NextPartIDSequence ==
    /\ calls = 0 => lastPartID = 0
    /\ (calls >= 1 /\ calls <= MaxPartID) =>
          /\ lastRet.id = calls /\ lastRet.err = "nil"
          /\ lastPartID = calls
    /\ calls > MaxPartID =>
          /\ lastRet.id = 0 /\ lastRet.err = "ErrMaxPartID"
          /\ lastPartID = MaxPartID

C7_Witness ==
    /\ calls >= MaxPartID + 2
    /\ lastRet.err = "ErrMaxPartID"
    /\ lastPartID = MaxPartID

(* C8: at most ConcurrentParts + 1 slices returned by Next are not yet     *)
(* closed.                                                                 *)
C8_LiveSlicesBounded == live <= ConcurrentParts + 1

(* C9: an input no longer than PartSize is uploaded by one PutObject and   *)
(* no CreateMultipartUpload, a longer one by a multi-part upload and no    *)
(* PutObject.                                                              *)
C9_OneProtocol ==
    /\ L <= PartSize =>
          /\ Count("CreateMultipartUpload") = 0
          /\ Count("UploadPart") = 0
          /\ Count("PutObject") <= 1
          /\ pc = "returned" => Count("PutObject") = 1
    /\ L > PartSize =>
          /\ Count("PutObject") = 0
          /\ Count("CreateMultipartUpload") <= 1
          /\ (pc \in {"returned", "panicked"} \/ s3multi) =>
                Count("CreateMultipartUpload") = 1

C9_Witness ==
    /\ L = PartSize
    /\ pc = "returned"
    /\ Count("PutObject") = 1
    /\ Count("CreateMultipartUpload") = 0

(* C10: a multi-part upload without failure or cancellation makes one      *)
(* CreateMultipartUpload, then one UploadPart for each part number 1..N    *)
(* carrying the i-th range of the input, then one CompleteMultipartUpload  *)
(* after all UploadPart calls have returned.                               *)
C10_CreatePartsComplete ==
    /\ CompleteIssued => \A i \in 1..NParts : part[i] = "returned"
    /\ (L > PartSize /\ NParts <= MaxPartID /\ ~cancelled /\ ~wireErr
          /\ waitRes # "timeout" /\ Terminated) =>
          /\ wireLog[1].op = "CreateMultipartUpload"
          /\ Count("CreateMultipartUpload") = 1
          /\ Count("UploadPart") = NParts
          /\ \A i \in 1..NParts :
                \E k \in 1..Len(wireLog) :
                    /\ wireLog[k].op = "UploadPart"
                    /\ wireLog[k].id = i
                    /\ wireLog[k].n = RangeSize(i)
          /\ Count("CompleteMultipartUpload") = 1

C24_ChecksumMatchesProtocol ==
    /\ (pc = "returned" /\ Count("PutObject") = 1) =>
          ObjectChecksumKind(Len(hparts)) = "Sum"
    /\ (s3multi /\ pc \in {"wait", "waiting", "check"}) =>
          ObjectChecksumKind(Len(hparts)) = "SumOfSums"
    /\ completedOutput = "out" =>
          ObjectChecksumKind(Len(hparts)) = "SumOfSums"

\* An input of exactly PartSize bytes was completed by PutObject: its one
\* part is full and no second part was opened.
C24_Witness ==
    /\ L = PartSize
    /\ pc = "returned"
    /\ ret = "ok"
    /\ hparts = << PartSize >>
    /\ Count("GetObjectAttributes") = 1

(* C28: without a timeout Wait never returns the timeout error, and when   *)
(* Wait returns the timeout error the context of the session is cancelled, *)
(* so that the part uploads it was waiting for stop.  (Violated: the timer *)
(* case of Wait only returns ErrTimeout; nothing is cancelled and the      *)
(* workers go on.)                                                         *)
C28_TimeoutCancels ==
    /\ [](~timeoutOn => waitRes # "timeout")
    /\ [][(waitRes # "timeout" /\ waitRes' = "timeout") => cancelled']_vars

(* The session of the upload was created and not successfully completed.  *)
CreatedNotCompleted == s3multi /\ completedOutput # "out"

(* C11: whenever Uploader.Wait has returned, normally or because of        *)
(* cancellation, the pending-abort registry holds the upload's session if  *)
(* and only if its CreateMultipartUpload succeeded and it has not been     *)
(* successfully completed.                                                 *)
C11_PendingListsCreatedSessions ==
    uWaitRes # "none" => (Sess \in abortable <=> CreatedNotCompleted)

(* The number of AbortMultipartUpload calls made for session s. *)
AbortCount(s) ==
    Cardinality({k \in 1..Len(wireLog) :
                    /\ wireLog[k].op = "AbortMultipartUpload"
                    /\ wireLog[k].id = s})

(* C12: an AbortPending whose context is not cancelled has at most one     *)
(* AbortMultipartUpload in flight at any time, and at its return it has    *)
(* made exactly one call for every session that was registered, none for   *)
(* any other, and the registry is empty whatever the calls answered.       *)
C12_AbortPendingAbortsEachOnce ==
    /\ [](~abortPending.ctxDone => Cardinality(inflight) <= 1)
    /\ [][(/\ abortPending.caller = "blocked"
           /\ abortPending'.caller \in {"returned", "gaveup"}
           /\ ~abortPending'.ctxDone) =>
          (/\ abortable' = {}
           /\ inflight' = {}
           /\ \A s \in Sessions :
                 AbortCount(s)' = IF s \in abortPending.reg THEN 1 ELSE 0)]_vars

C12_Witness ==
    /\ abortPending.caller = "returned"
    /\ ~abortPending.ctxDone
    /\ Cardinality(abortPending.reg) >= 2
    /\ abortable = {}
    /\ \E s, r \in abortPending.reg :
          abortedError[s] # "nil" /\ abortedOutput[r] = "out"

(* C13: a call of AbortUpload issues one AbortMultipartUpload, stores the  *)
(* response and the error in the state and returns no error, also when     *)
(* the server answered with an error.                                      *)
C13_AbortUploadNeverFails ==
    \A s \in Sessions :
        abortRet[s] # "none" =>
            /\ AbortCount(s) = 1
            /\ abortedOutput[s] = "out" \/ abortedError[s] # "nil"
            /\ abortRet[s] = "nil"

C15_WaitAfterCancelNeverNil ==
    [][(cancelled /\ waitRes = "none" /\ waitRes' # "none") =>
          waitRes' # "nil"]_vars

----------------------------------------------------------------------------
(* Properties of the Sources, stated over SrcSpec. *)

\* The bytes a SourceReader yields when it is read.
SliceData(j) ==
    LET s == slices[j]
    IN IF s.store = 0 THEN SubSeq(Input, s.off + 1, s.off + s.size)
       ELSE SubSeq(stores[s.store].data, s.off + 1, s.off + s.size)

\* The j-th range of the canonical split of the input.
InputRange(j) == SubSeq(Input, (j - 1) * PartSize + 1, Min(j * PartSize, L))

\* C16: for each of the three Sources and an input of L bytes that is read
\* without error, Next returns at most ceil(L/PartSize) slices and exactly
\* that many once it has returned EOF; every slice but the last holds
\* PartSize bytes and the last between 1 and PartSize; and every slice that
\* is still open holds the bytes of its range of the input, whichever other
\* slices were closed before and whatever Next did since.
C16_SlicesAreTheInput ==
    src.failAt = NoFail =>
        /\ Len(slices) <= NParts
        /\ nextRet.err = "EOF" => Len(slices) = NParts
        /\ \A j \in 1..Len(slices) :
              /\ slices[j].size = Len(InputRange(j))
              /\ slices[j].size \in 1..PartSize
              /\ j < NParts => slices[j].size = PartSize
              /\ slices[j].closes = 0 => SliceData(j) = InputRange(j)

\* A memory spool read to EOF in three slices, the last one short, where the
\* second slice was closed first and its buffer was reused for the third,
\* while the first is still open.
C16_Witness ==
    /\ src.kind = "mem"
    /\ src.failAt = NoFail
    /\ L = 2 * PartSize + 1
    /\ nextRet.err = "EOF"
    /\ Len(slices) = 3
    /\ slices[1].closes = 0
    /\ slices[2].closes > 0
    /\ slices[3].closes = 0
    /\ slices[3].store = slices[2].store

\* Temp files that exist and pooled buffers that are out of the pool.
Retained == {b \in 1..Len(stores) : stores[b].state = "live"}

\* C17: on an empty input that is read without error the first Next returns
\* EOF; Next never returns a slice together with EOF; once Next has returned
\* EOF the next call returns EOF again and no slice; and every temp file or
\* pooled buffer that is retained backs a slice that was returned and not
\* yet closed, so a call that returns EOF retains none.
C17_EOFContract ==
    /\ [](/\ (L = 0 /\ src.failAt = NoFail /\ src.calls > 0) =>
                 (nextRet.err = "EOF" /\ slices = << >>)
          /\ nextRet.err = "EOF" => ~nextRet.slice
          /\ nextRet.slice <=> nextRet.err = "nil"
          /\ \A b \in Retained :
                \E j \in 1..Len(slices) :
                    slices[j].store = b /\ slices[j].closes = 0)
    /\ [][(nextRet.err = "EOF" /\ src'.calls > src.calls) =>
              (nextRet'.err = "EOF" /\ ~nextRet'.slice /\ slices' = slices
               /\ Retained' = Retained)]_vars

\* A temp-file spool that returned three slices and then EOF twice: five
\* temp files were created, and none is left once the slices are closed.
C17_Witness ==
    /\ src.kind = "tempf"
    /\ src.failAt = NoFail
    /\ L = 2 * PartSize + 1
    /\ src.calls = 5
    /\ nextRet.err = "EOF"
    /\ Len(stores) = 5
    /\ Retained = {}

\* C18: once a slice was closed twice or more, the last Close returned no
\* error and the slice's temp file or pooled buffer was released at most
\* once.  (Violated: tempfBuffer.Close returns the error of os.File.Close,
\* which fails on a file that is already closed.)
C18_CloseIsIdempotent ==
    \A j \in 1..Len(slices) :
        slices[j].closes >= 2 =>
            (slices[j].lastClose = "nil" /\ slices[j].releases <= 1)

\* C19: when the input fails with a non-EOF error during a Next of the
\* memory spool, that Next returns the error and no slice.  (Violated:
\* memSource.Next leaves its loop on any error and never looks at it.)
C19_MemNextReturnsReadError ==
    (src.kind = "mem" /\ nextRet.failed) =>
        (nextRet.err = "read error" /\ ~nextRet.slice)

----------------------------------------------------------------------------
(* Properties of HashParts, stated over HashSpec. *)

RECURSIVE SumSeq(_)
SumSeq(s) == IF s = << >> THEN 0 ELSE Head(s) + SumSeq(Tail(s))

\* The sizes of the canonical split of n bytes into parts of PartSize.
CanonicalSizes(n) ==
    [i \in 1..((n + PartSize - 1) \div PartSize) |->
        IF i * PartSize <= n THEN PartSize ELSE n - (i - 1) * PartSize]

\* C20: after writes totalling hwritten > 0 bytes, whatever their lengths,
\* Count and every PartSize(i) are those of the canonical split of hwritten
\* bytes, and the part sizes sum to hwritten.  (Violated: a zero-length
\* Write that follows a part filled to PartSize appends an empty part.)
C20_PartsAreCanonicalSplit ==
    /\ SumSeq(hparts) = hwritten
    /\ (pc = "test" /\ hwritten > 0) => hparts = CanonicalSizes(hwritten)

----------------------------------------------------------------------------
(* Properties of S3Key, stated over KeySpec. *)

\* Some character of the valid UTF-8 string s is in the category Cc.
RECURSIVE HasCc(_)
HasCc(s) ==
    IF s = << >> THEN FALSE
    ELSE LET d == DecodeRune(s)
         IN d.r \in (0..31) \cup (127..159) \/ HasCc(Drop(s, d.w))

CleanKey(s) == ValidString(s) /\ ~HasCc(s)

\* C22: for a key that is valid UTF-8 without control characters,
\* S3Key(k, false) returns k, and returns no error when k is at most
\* MaxKeyBytes long.  (Violated: a key that holds the character U+FFFD is
\* valid, but DecodeRune returns RuneError for it and S3Key takes that for
\* an invalid byte.)
C22_CleanKeyUnchanged ==
    (keyRet.err # "none" /\ ~keyIn.encode /\ CleanKey(keyIn.k)) =>
        /\ keyRet.key = keyIn.k
        /\ Len(keyIn.k) <= MaxKeyBytes => keyRet.err = "nil"

\* C23: a key that S3Key(k, true) returns without error is valid UTF-8, has
\* no control characters and is at most MaxKeyBytes long; when the encoded
\* form is longer, S3Key returns an error; and S3Key(k, false) returns an
\* error for every k that has an invalid byte or a control character.
C23_EncodedKeyIsClean ==
    keyRet.err # "none" =>
        /\ (keyIn.encode /\ keyRet.err = "nil") =>
              (CleanKey(keyRet.key) /\ Len(keyRet.key) <= MaxKeyBytes)
        /\ (keyIn.encode /\ Len(KeyLoop(keyIn.k, << >>)) > MaxKeyBytes) =>
              keyRet.err # "nil"
        /\ (~keyIn.encode /\ ~CleanKey(keyIn.k)) => keyRet.err # "nil"

\* The control character 0x01 was percent-encoded into a three-byte key.
C23_Witness ==
    /\ keyIn = [k |-> << 1 >>, encode |-> TRUE]
    /\ keyRet = [key |-> << 37, 48, 49 >>, err |-> "nil"]

----------------------------------------------------------------------------
(* Properties of the reporting, stated over ReportSpec. *)

PutObjectSucceeded == resIn.st.obj /\ ~resIn.st.objError
PutObjectFailed == resIn.st.obj /\ resIn.st.objError
CompleteSucceeded == resIn.st.completedOutput /\ ~resIn.st.completedError
AbortSucceeded == resIn.st.abortedOutput /\ ~resIn.st.abortedError

\* C25: for the state of every result, NewObjectReporting returns a record
\* whose Completed is true iff the PutObject or the CompleteMultipartUpload
\* succeeded, whose Aborted is true iff the PutObject failed or the
\* AbortMultipartUpload succeeded, and whose UploadId is present iff the
\* state is that of a multi-part session neither completed nor aborted.
\* (Violated: after a failed PutObject objOutput is nil, the state counts
\* as neither kind of object and no record is returned.)
C25_ReportFlags ==
    report.err # "none" =>
        /\ report.err = "nil"
        /\ report.Completed <=> (PutObjectSucceeded \/ CompleteSucceeded)
        /\ report.Aborted <=> (PutObjectFailed \/ AbortSucceeded)
        /\ report.UploadId <=>
              (resIn.st.create /\ ~CompleteSucceeded /\ ~AbortSucceeded)

\* The operations that failed for the object of resIn.
FailedOperations ==
    (IF resIn.st.objError THEN {<< "PutObject", 0 >>} ELSE {})
    \cup {<< "UploadPart", i >> : i \in resIn.st.uploadPartErrors}
    \cup (IF resIn.st.completedError
          THEN {<< "CompleteMultipartUpload", 0 >>} ELSE {})

\* C26: when main has handled the result of an upload that failed with a
\* state (a PutObject error, a part error, a completion error, a
\* cancellation), it has written a manifest record for it, with Completed
\* false and an Errors block that names each failed operation.  (Violated:
\* main only logs a result whose Error is set and writes no record.)
C26_FailedObjectHasRecord ==
    (manifest # "none" /\ resIn.hasState /\ resIn.error) =>
        /\ manifest = "record written"
        /\ ~NewObjectReporting(resIn.st).Completed
        /\ FailedOperations \subseteq NewObjectReporting(resIn.st).Errors

----------------------------------------------------------------------------
(* Properties of the Uploader's queue, stated over UploadFairSpec. *)

\* C27: every call of Upload eventually has exactly one UploadResults on
\* its channel, and never more than one; a call that no worker accepted
\* gets the result with the nil State; and once every call has its result
\* the pending count is back at zero.  (Violated: an upload of more than
\* PartSize bytes ends in the panic of setPartResults, and the process
\* exits without a result for the call.)
C27_EveryUploadDeliversOnce ==
    /\ \A q \in Uploads : (upl[q].pc # "idle") ~> (Len(qres[q]) = 1)
    /\ [](\A q \in Uploads : Len(qres[q]) <= 1)
    /\ []((\A q \in Uploads : upl[q].pc # "select" /\ Len(qres[q]) = 1)
            => uPending = 0)

----------------------------------------------------------------------------
(* Properties of concurrent NextPartID calls, stated over PartIDSpec. *)

\* The part numbers returned without error so far, to any caller.
Returned ==
    UNION {{caller[c].got[k] : k \in 1..Len(caller[c].got)} :
              c \in Callers} \ {0}

NumReturned ==
    Cardinality({<< c, k >> \in Callers \X (1..MaxCallsEach) :
                    k <= Len(caller[c].got) /\ caller[c].got[k] # 0})

\* C29: the part numbers returned without error are pairwise distinct and
\* are exactly 1..k after k successful calls, and each successful call
\* returns one more than the largest number returned before it.
C29_PartIDsDistinctAndDense ==
    /\ [](Cardinality(Returned) = NumReturned)
    /\ [](Returned = 1..NumReturned)
    /\ [][\A c \in Callers :
            (Len(caller'[c].got) > Len(caller[c].got)
                /\ caller'[c].got[Len(caller'[c].got)] # 0) =>
            caller'[c].got[Len(caller'[c].got)] = NumReturned + 1]_vars

\* Two callers were handed part numbers, interleaved, up to MaxPartID, and
\* the calls made after that were refused.
C29_Witness ==
    /\ caller[1].got = << 2, 0 >>
    /\ caller[2].got = << 1, 3 >>
    /\ caller[3].got = << 0 >>
    /\ lastPartID = MaxPartID
    /\ pMu = 0


(* C30: in every state, the UploadPart calls on the wire for one session   *)
(* number at most ConcurrentParts, and the queuedPart a part worker holds  *)
(* was submitted to the worker's own session.                              *)
InFlight(s) == {i \in PartIDs : sessPart[s][i].st = "inflight"}

C30_PartWorkersBounded ==
    /\ \A s \in Pools : Cardinality(InFlight(s)) <= ConcurrentParts
    /\ \A s \in Pools, i \in PartIDs :
          sessPart[s][i].st \in {"handed", "inflight"}
             => sessPart[s][i].by = s

(* Session 1 has ConcurrentParts calls on the wire and one more part       *)
(* waiting in the send on p.ch, while the workers of session 2 are in      *)
(* their select.                                                           *)
C30_Witness ==
    /\ Cardinality(InFlight(1)) = ConcurrentParts
    /\ \E i \in PartIDs : sessPart[1][i].st = "queued"
    /\ sessW[2].idle = ConcurrentParts
    /\ ~panicking


(* C31: the maps of the S3UploadState are read and written under its       *)
(* mutex only, so upload is never at its read of Errors() (line 392, after *)
(* Wait returned nil) while a cancelled submitter stands between its       *)
(* p.pending.Done() and its setPartResults.  (Violated: Errors() takes no   *)
(* lock, and the submitter releases the counter before it records; the     *)
(* read and the write are both enabled.)                                   *)
C31_MapAccessUnderMutex ==
    ~(pc = "check" /\ \E i \in PartIDs : part[i] = "rejecting")


(* C32: every step that changes the pending-abort registry is taken with   *)
(* Uploader.mu held: a removal by the goroutine of AbortPending while       *)
(* AbortPending holds it, a registration by taking the free mutex.         *)
(* (Violated: when its ctx is done AbortPending returns and unlocks, and   *)
(* its goroutine goes on deleting from the map.)                           *)
C32_RegistryUnderMutex ==
    [][abortable' # abortable =>
          IF abortable' \subseteq abortable
          THEN uMu = "AbortPending"
          ELSE uMu = "free" /\ abortable \subseteq abortable']_vars


SliceStart == offset - (IF peeked.set THEN peeked.size ELSE 0) - sr

(* C34: at the step that stamps the checksums of a part and submits it     *)
(* (lines 366-380), the part number just obtained from NextPartID is the   *)
(* index of a hasher part that starts where the slice starts in the input  *)
(* and has the slice's length, and the hasher has been fed the input up to *)
(* the end of that slice and no further, also when a second slice was      *)
(* read ahead.                                                             *)
C34_PartChecksumsOfOwnBody ==
    [][(pc = "submit" /\ pc' = "next") =>
          /\ lastPartID \in 1..Len(hparts)
          /\ hparts[lastPartID] = sr
          /\ SumSeq(SubSeq(hparts, 1, lastPartID - 1)) = SliceStart
          /\ SumSeq(hparts) = SliceStart + sr
          /\ body'[lastPartID] = sr]_vars

(* The first part was submitted while the slice read ahead is still kept   *)
(* in peeked.                                                              *)
C34_Witness ==
    /\ pc = "next"
    /\ lastPartID = 1
    /\ part[1] # "none"
    /\ peeked.set
    /\ body[1] = PartSize


(* C35: between the calls of tempfSource.Next the temp files that exist    *)
(* are exactly the files of the slices that Next returned and that were    *)
(* not closed since: a Next that returns EOF or an error leaves none, and  *)
(* the Close of a slice removes its file.                                  *)
C35_TempFilesAreOpenSlices ==
    src.kind = "tempf" =>
        Retained = {slices[j].store :
                       j \in {i \in 1..Len(slices) : slices[i].closes = 0}}

(* A temp-file spool whose reader failed after two slices: the first slice *)
(* was closed, the second is open, and the failed Next left no third file. *)
C35_Witness ==
    /\ src.kind = "tempf"
    /\ nextRet.err = "read error"
    /\ Len(slices) = 2
    /\ Len(stores) = 3
    /\ slices[1].closes = 1
    /\ slices[2].closes = 0
    /\ Retained = {slices[2].store}


(* The per-part errors an Errors block names. *)
PartErrorsOf(errors) == {e[2] : e \in {x \in errors : x[1] = "UploadPart"}}

(* C36: the part numbers of the per-part errors in an Errors block are the *)
(* part numbers under which the errors were recorded, which are the ones   *)
(* used on the wire, in the block of NewObjectReporting and in the block   *)
(* of NewObjectErrors.  (Violated: NewObjectErrors reports key + 1.)       *)
C36_ErrorPartNumbers ==
    (resIn.hasState /\ report.err # "none") =>
        /\ report.err = "nil" =>
              PartErrorsOf(report.Errors) = resIn.st.uploadPartErrors
        /\ PartErrorsOf(NewObjectErrors(resIn.st)) = resIn.st.uploadPartErrors


(* C37: with a -key that names one object, processGlobs sends at most one  *)
(* upload object, so no two sources are queued for the same key.           *)
(* (Violated: the test of line 90 lets the second regular file through.)   *)
C37_OneSourcePerNamedKey ==
    IsName(glob.key) => Len(glob.sent) <= 1


(* Whether a CompleteMultipartUpload of session s has succeeded. *)
Completed(s) == finish[s] \in {"completed", "unregistered"}

(* CompleteMultipartUpload and AbortMultipartUpload of one session are     *)
(* never in flight together.                                               *)
CompleteAbortExclusive ==
    \A s \in Sessions : ~(finish[s] = "CompleteUpload" /\ s \in inflight)

CompleteAbortExclusive_Witness ==
    \E s \in Sessions :
        /\ finish[s] = "CompleteUpload"
        /\ abortPending.caller = "blocked"
        /\ s \in abortable \ abortPending.visited

Outstanding == {i \in PartIDs : part[i] \in {"queued", "handed", "inflight"}}

(* C39: the pending counter is the number of submitted parts that have     *)
(* neither returned from the worker's uploadPart nor been rejected by the  *)
(* submitter's cancellation branch, so it is never negative and is zero    *)
(* exactly when every submitted part is accounted for; a part is counted   *)
(* once, when UploadPart submits it, and discounted once, by one of the    *)
(* two.                                                                    *)
C39_PendingCountsOutstanding ==
    /\ [](pending = Cardinality(Outstanding))
    /\ [][\A i \in PartIDs :
            /\ (i \notin Outstanding /\ i \in Outstanding') =>
                  part[i] = "none" /\ pending' = pending + 1
            /\ (i \in Outstanding /\ i \notin Outstanding') =>
                  /\ pending' = pending - 1
                  /\ \/ part[i] = "inflight" /\ part'[i] = "returned"
                     \/ part[i] = "queued" /\ part'[i] = "rejecting"]_vars

(* One part was discounted by its worker and one by its submitter. *)
C39_Witness ==
    /\ pending = 0
    /\ \E i, j \in PartIDs : part[i] = "returned" /\ part[j] = "rejecting"


(* The goroutines of the session are gone and the slices are closed: every *)
(* part worker has returned, no submitter is parked in its select, and     *)
(* every part's result channel has yielded, on which the goroutine of      *)
(* lines 381-384 of upload closes the part's slice and returns.            *)
SessionQuiet ==
    /\ \A w \in Workers : pcW[w] = "exited"
    /\ \A i \in PartIDs :
          Submitted(i) => part[i] # "queued" /\ resCh[i] # "empty"

(* A part worker returns only once the session's context is done (lines   *)
(* 100-111 of s3_upload_parts.go), and upload never cancels it: without a  *)
(* cancellation by the caller no worker ever returns.                      *)
WorkersExitOnlyOnCancel ==
    \A w \in Workers : pcW[w] = "exited" => cancelled

(* C40: once upload has returned for a multi-part object, its part         *)
(* workers, submitters and closers eventually terminate and every slice is *)
(* closed, whether or not the context is ever cancelled.                   *)
(* (Violated: an idle worker returns only when the session's context is    *)
(* done, and upload never cancels it.)                                     *)
C40_UploadLeavesNothingBehind ==
    (pc = "returned" /\ s3multi) ~> SessionQuiet

====
